---- MODULE Spec2Model ----
(***************************************************************************)
(* A model of Roaring64Map (cpp/roaring64map.hh): a std::map from a 32-bit *)
(* outer key to a 32-bit Roaring bitmap.  The two 32-bit halves of a value *)
(* are scaled down: the low half ranges over 0..MaxLow (MaxLow plays the   *)
(* part of UINT32_MAX), the high half over 0..MaxHigh, and uint64_t        *)
(* arithmetic wraps modulo (MaxHigh+1)*(MaxLow+1), the number of values of *)
(* the domain, exactly as 2^64 = 2^32 * 2^32 does in the program.          *)
(***************************************************************************)
EXTENDS Integers, Sequences, FiniteSets, TLC

VARIABLES r64, other, last, iterator, bitsets

vars == <<r64, other, last, iterator, bitsets>>

\* ------------------------------------------------------------------ bounds
MaxHigh == 2
MaxLow == 1
MaxInputs == 2
MaxMany == 2
WordBits == 2
MaxBlocks == 1
MaxCalls == 4

\* --------------------------------------------------------- integer widths
\* the bound of uint32_t: (std::numeric_limits<uint32_t>::max)()
maxUint32 == MaxLow

\* the number of values of a uint32_t (2^32 in the program)
LowCount == maxUint32 + 1

HighCount == MaxHigh + 1

\* the number of values of a uint64_t (2^64 in the program)
Mod64 == HighCount * LowCount

\* the bound of uint64_t: (std::numeric_limits<uint64_t>::max)()
maxUint64 == Mod64 - 1

Keys == 0 .. MaxHigh
Lows == 0 .. maxUint32
Values == 0 .. maxUint64

highBytes(in) == in \div LowCount

lowBytes(in) == in % LowCount

uniteBytes(hb, lb) == hb * LowCount + lb

\* the unspecified value of an out-parameter that was not written
NoValue == "unspecified"

\* ------------------------------------------- the inner 32-bit Roaring
\* A 32-bit Roaring is the set of its values and its copy-on-write flag.
NewRoaring == [bits |-> {}, cow |-> FALSE]

SetMax(S) == CHOOSE x \in S : \A y \in S : y <= x

SetMin(S) == CHOOSE x \in S : \A y \in S : x <= y

Roaring_isEmpty(b) == b.bits = {}

Roaring_cardinality(b) == Cardinality(b.bits)

Roaring_contains(b, x) == x \in b.bits

Roaring_maximum(b) == IF b.bits = {} THEN 0 ELSE SetMax(b.bits)

Roaring_minimum(b) == IF b.bits = {} THEN maxUint32 ELSE SetMin(b.bits)

Roaring_rank(b, x) == Cardinality({y \in b.bits : y <= x})

\* the element of 0-based rank rnk; only used when rnk < cardinality
Roaring_selectValue(b, rnk) ==
    CHOOSE x \in b.bits : Cardinality({y \in b.bits : y < x}) = rnk

Roaring_select(b, rnk) == rnk < Cardinality(b.bits)

Roaring_add(b, x) == [b EXCEPT !.bits = @ \cup {x}]

Roaring_remove(b, x) == [b EXCEPT !.bits = @ \ {x}]

Roaring_addRangeClosed(b, min, max) ==
    IF min > max THEN b ELSE [b EXCEPT !.bits = @ \cup (min .. max)]

Roaring_removeRangeClosed(b, min, max) ==
    IF min > max THEN b ELSE [b EXCEPT !.bits = @ \ (min .. max)]

\* Roaring::flip over the half-open interval [range_start, range_end)
Roaring_flip(b, range_start, range_end) ==
    IF range_start >= range_end THEN b
    ELSE LET I == range_start .. (range_end - 1)
         IN  [b EXCEPT !.bits = (@ \ I) \cup (I \ @)]

Roaring_setCopyOnWrite(b, val) == [b EXCEPT !.cow = val]

Roaring_or(a, b) == [a EXCEPT !.bits = @ \cup b.bits]

Roaring_and(a, b) == [a EXCEPT !.bits = @ \cap b.bits]

Roaring_andnot(a, b) == [a EXCEPT !.bits = @ \ b.bits]

Roaring_xor(a, b) == [a EXCEPT !.bits = (@ \ b.bits) \cup (b.bits \ @)]

\* roaring_bitmap_or_many over a sequence of inner bitmaps, wrapped in a
\* fresh Roaring
Roaring_or_many(bs) ==
    [bits |-> UNION {bs[i].bits : i \in DOMAIN bs}, cow |-> FALSE]

\* ------------------------------------------------ the outer std::map
\* roarings_t: a function from the keys present to the inner bitmaps
EmptyMap == [k \in {} |-> NewRoaring]

\* Roaring64Map() = default
NewRoaring64Map == [roarings |-> EmptyMap, copyOnWrite |-> FALSE]

MapSize(m) == Cardinality(DOMAIN m)

\* Iterators are positions 1..size in ascending key order; end() is size+1.
MapBegin(m) == 1

MapEnd(m) == MapSize(m) + 1

KeyAt(m, i) == CHOOSE k \in DOMAIN m : Cardinality({j \in DOMAIN m : j < k}) = i - 1

\* std::map::lower_bound: the first position whose key is >= k, else end()
LowerBound(m, k) == Cardinality({j \in DOMAIN m : j < k}) + 1

\* std::map::operator[]: default-constructs the entry when it is absent
MapIndex(m, k) ==
    IF k \in DOMAIN m THEN m
    ELSE [j \in DOMAIN m \cup {k} |-> IF j = k THEN NewRoaring ELSE m[j]]

MapPut(m, k, v) == [j \in DOMAIN m \cup {k} |-> IF j = k THEN v ELSE m[j]]

\* std::map::erase(iterator)
MapErase(m, k) == [j \in DOMAIN m \ {k} |-> m[j]]

\* an erase that takes the entry at lst as well
MapEraseRange_closed(m, first, lst) ==
    LET gone == {KeyAt(m, i) : i \in (first .. lst) \cap (1 .. MapSize(m))}
    IN  [j \in DOMAIN m \ gone |-> m[j]]

\* std::map::erase(first, last) over the positions [first, last)
MapEraseRange(m, first, lst) ==
    LET gone == {KeyAt(m, i) : i \in first .. (lst - 1)}
    IN  [j \in DOMAIN m \ gone |-> m[j]]

\* ----------------------------------------------- Roaring64Map: updates
add32(m, x) ==
    LET rs == MapIndex(m.roarings, 0)
        bitmap == Roaring_setCopyOnWrite(Roaring_add(rs[0], x), m.copyOnWrite)
    IN  [m EXCEPT !.roarings = MapPut(rs, 0, bitmap)]

add64(m, x) ==
    LET rs == MapIndex(m.roarings, highBytes(x))
        bitmap == Roaring_setCopyOnWrite(
                      Roaring_add(rs[highBytes(x)], lowBytes(x)), m.copyOnWrite)
    IN  [m EXCEPT !.roarings = MapPut(rs, highBytes(x), bitmap)]

remove32(m, x) ==
    LET rs == MapIndex(m.roarings, 0)
    IN  [m EXCEPT !.roarings = MapPut(rs, 0, Roaring_remove(rs[0], x))]

remove64(m, x) ==
    IF highBytes(x) \in DOMAIN m.roarings
    THEN [m EXCEPT !.roarings[highBytes(x)] = Roaring_remove(@, lowBytes(x))]
    ELSE m

\* the for loop of addMany(size_t, const uint64_t *) from position lcv on;
\* lastInnerBitmap caches the address of roarings[value_high]
RECURSIVE addManyLoop(_, _, _)
addManyLoop(m, vals, lcv) ==
    IF lcv > Len(vals) THEN m
    ELSE LET value_high == highBytes(vals[lcv])
             value_low == lowBytes(vals[lcv])
             rs == MapIndex(m.roarings, value_high)
             bitmap == Roaring_setCopyOnWrite(
                           Roaring_add(rs[value_high], value_low), m.copyOnWrite)
         IN  addManyLoop([m EXCEPT !.roarings = MapPut(rs, value_high, bitmap)],
                         vals, lcv + 1)

addMany64(m, vals) == addManyLoop(m, vals, 1)

\* Roaring64Map(size_t n, const uint64_t *data)
Roaring64MapOf(data) == addMany64(NewRoaring64Map, data)

removeChecked32(m, x) ==
    LET rs == MapIndex(m.roarings, 0)
    IN  [map |-> [m EXCEPT !.roarings = MapPut(rs, 0, Roaring_remove(rs[0], x))],
         ret |-> Roaring_contains(rs[0], x)]

removeChecked64(m, x) ==
    IF highBytes(x) \in DOMAIN m.roarings
    THEN [map |-> [m EXCEPT !.roarings[highBytes(x)] =
                                Roaring_remove(@, lowBytes(x))],
          ret |-> Roaring_contains(m.roarings[highBytes(x)], lowBytes(x))]
    ELSE [map |-> m, ret |-> FALSE]

addRangeClosed32(m, min, max) ==
    LET rs == MapIndex(m.roarings, 0)
    IN  [m EXCEPT !.roarings =
            MapPut(rs, 0, Roaring_addRangeClosed(rs[0], min, max))]

\* auto &bitmap = roarings[key]; bitmap.addRangeClosed(lo, hi);
\* bitmap.setCopyOnWrite(copyOnWrite);
addRangeAt(roarings, key, lo, hi, copyOnWrite) ==
    LET rs == MapIndex(roarings, key)
    IN  MapPut(rs, key, Roaring_setCopyOnWrite(
                            Roaring_addRangeClosed(rs[key], lo, hi), copyOnWrite))

\* Step 2 of addRangeClosed: for (; start_high < end_high; ++start_high)
RECURSIVE addRangeFill(_, _, _, _)
addRangeFill(roarings, start_high, end_high, copyOnWrite) ==
    IF start_high < end_high
    THEN addRangeFill(addRangeAt(roarings, start_high, 0, maxUint32, copyOnWrite),
                      start_high + 1, end_high, copyOnWrite)
    ELSE roarings

addRangeClosed64(m, min, max) ==
    IF min > max THEN m
    ELSE LET start_high == highBytes(min)
             start_low == lowBytes(min)
             end_high == highBytes(max)
             end_low == lowBytes(max)
             cow == m.copyOnWrite
         IN  IF start_high = end_high
             THEN [m EXCEPT !.roarings =
                      addRangeAt(@, start_high, start_low, end_low, cow)]
             ELSE LET step1 == addRangeAt(m.roarings, start_high, start_low,
                                          maxUint32, cow)
                      step2 == addRangeFill(step1, start_high + 1, end_high, cow)
                  IN  [m EXCEPT !.roarings =
                          addRangeAt(step2, end_high, 0, end_low, cow)]

removeRangeClosed32(m, min, max) ==
    LET rs == MapIndex(m.roarings, 0)
    IN  [m EXCEPT !.roarings =
            MapPut(rs, 0, Roaring_removeRangeClosed(rs[0], min, max))]

removeRangeClosed64(m, min, max) ==
    LET rs == m.roarings
        start_high == highBytes(min)
        start_low == lowBytes(min)
        end_high == highBytes(max)
        end_low == lowBytes(max)
    IN  IF min > max THEN m
        ELSE IF \/ MapSize(rs) = 0
                \/ end_high < KeyAt(rs, MapBegin(rs))
                \/ start_high > KeyAt(rs, MapEnd(rs) - 1)
        THEN m
        ELSE LET start_iter == LowerBound(rs, start_high)
                 end_iter == LowerBound(rs, end_high)
                 startOnEntry == KeyAt(rs, start_iter) = start_high
                 endOnEntry == /\ end_iter # MapEnd(rs)
                               /\ KeyAt(rs, end_iter) = end_high
             IN  IF startOnEntry /\ start_iter = end_iter
                 THEN [m EXCEPT !.roarings[start_high] =
                          Roaring_removeRangeClosed(@, start_low, end_low)]
                 ELSE LET step1 == IF startOnEntry
                                   THEN [rs EXCEPT ![start_high] =
                                            Roaring_removeRangeClosed(
                                                @, start_low, maxUint32)]
                                   ELSE rs
                          first == IF startOnEntry THEN start_iter + 1
                                   ELSE start_iter
                          step2 == MapEraseRange(step1, first, end_iter)
                          step3 == IF endOnEntry
                                   THEN [step2 EXCEPT ![end_high] =
                                            Roaring_removeRangeClosed(
                                                @, 0, end_low)]
                                   ELSE step2
                      IN  [m EXCEPT !.roarings = step3]

\* static void flipClosed(Roaring *bitmap, uint32_t start, uint32_t end)
flipClosedInner(bitmap, start, end) == Roaring_flip(bitmap, start, end + 1)

\* auto &bitmap = roarings[key]; flipClosed(&bitmap, lo, hi);
\* bitmap.setCopyOnWrite(copyOnWrite);
flipAt(roarings, key, lo, hi, copyOnWrite) ==
    LET rs == MapIndex(roarings, key)
    IN  MapPut(rs, key, Roaring_setCopyOnWrite(
                            flipClosedInner(rs[key], lo, hi), copyOnWrite))

\* a step 2 that leaves the intermediate bitmaps alone
RECURSIVE flipFill_skip(_, _, _, _)
flipFill_skip(roarings, start_high, end_high, copyOnWrite) == roarings

\* Step 2 of flipClosed: for (; start_high < end_high; ++start_high)
RECURSIVE flipFill(_, _, _, _)
flipFill(roarings, start_high, end_high, copyOnWrite) ==
    IF start_high < end_high
    THEN flipFill(flipAt(roarings, start_high, 0, maxUint32, copyOnWrite),
                  start_high + 1, end_high, copyOnWrite)
    ELSE roarings

flipClosed(m, range_start, range_end) ==
    IF range_start > range_end THEN m
    ELSE LET start_high == highBytes(range_start)
             start_low == lowBytes(range_start)
             end_high == highBytes(range_end)
             end_low == lowBytes(range_end)
             cow == m.copyOnWrite
         IN  IF start_high = end_high
             THEN [m EXCEPT !.roarings =
                      flipAt(@, start_high, start_low, end_low, cow)]
             ELSE LET step1 == flipAt(m.roarings, start_high, start_low,
                                      maxUint32, cow)
                      step2 == flipFill(step1, start_high + 1, end_high, cow)
                  IN  [m EXCEPT !.roarings =
                          flipAt(step2, end_high, 0, end_low, cow)]

\* ------------------------------------- Roaring64Map: in-place operators
\* The loops visit the entries in ascending key order; todo is the set of
\* keys still to visit.  same stands for (this == &other).
\* an operator&= that keeps the entries whose key other lacks
RECURSIVE andLoop_keepMissing(_, _, _)
andLoop_keepMissing(self, oth, todo) ==
    IF todo = {} THEN self
    ELSE LET self_key == SetMin(todo)
             rest == todo \ {self_key}
         IN  IF self_key \notin DOMAIN oth
             THEN andLoop_keepMissing(self, oth, rest)
             ELSE LET self_bitmap == Roaring_and(self[self_key], oth[self_key])
                  IN  IF Roaring_isEmpty(self_bitmap)
                      THEN andLoop_keepMissing(MapErase(self, self_key), oth, rest)
                      ELSE andLoop_keepMissing(MapPut(self, self_key, self_bitmap),
                                               oth, rest)

RECURSIVE andLoop(_, _, _)
andLoop(self, oth, todo) ==
    IF todo = {} THEN self
    ELSE LET self_key == SetMin(todo)
             rest == todo \ {self_key}
         IN  IF self_key \notin DOMAIN oth
             THEN andLoop(MapErase(self, self_key), oth, rest)
             ELSE LET self_bitmap == Roaring_and(self[self_key], oth[self_key])
                  IN  IF Roaring_isEmpty(self_bitmap)
                      THEN andLoop(MapErase(self, self_key), oth, rest)
                      ELSE andLoop(MapPut(self, self_key, self_bitmap), oth, rest)

and_assign(m, o, same) ==
    IF same THEN m
    ELSE [m EXCEPT !.roarings = andLoop(@, o.roarings, DOMAIN @)]

RECURSIVE minusLoop(_, _, _)
minusLoop(self, oth, todo) ==
    IF todo = {} THEN self
    ELSE LET self_key == SetMin(todo)
             rest == todo \ {self_key}
         IN  IF self_key \notin DOMAIN oth
             THEN minusLoop(self, oth, rest)
             ELSE LET self_bitmap == Roaring_andnot(self[self_key], oth[self_key])
                  IN  IF Roaring_isEmpty(self_bitmap)
                      THEN minusLoop(MapErase(self, self_key), oth, rest)
                      ELSE minusLoop(MapPut(self, self_key, self_bitmap), oth, rest)

\* an operator-= whose shortcut for this == &other returns without clearing
minus_assign_noclear(m, o, same) ==
    IF same THEN m
    ELSE [m EXCEPT !.roarings = minusLoop(@, o.roarings, DOMAIN @)]

minus_assign(m, o, same) ==
    IF same THEN [m EXCEPT !.roarings = EmptyMap]
    ELSE [m EXCEPT !.roarings = minusLoop(@, o.roarings, DOMAIN @)]

RECURSIVE orLoop(_, _, _, _)
orLoop(self, oth, todo, copyOnWrite) ==
    IF todo = {} THEN self
    ELSE LET other_key == SetMin(todo)
             rest == todo \ {other_key}
             insert_happened == other_key \notin DOMAIN self
         IN  IF insert_happened
             THEN orLoop(MapPut(self, other_key,
                                Roaring_setCopyOnWrite(oth[other_key], copyOnWrite)),
                         oth, rest, copyOnWrite)
             ELSE orLoop(MapPut(self, other_key,
                                Roaring_or(self[other_key], oth[other_key])),
                         oth, rest, copyOnWrite)

or_assign(m, o, same) ==
    IF same THEN m
    ELSE [m EXCEPT !.roarings = orLoop(@, o.roarings, DOMAIN o.roarings,
                                       m.copyOnWrite)]

\* an operator^= that keeps the entry whose inner bitmap became empty
RECURSIVE xorLoop_keep(_, _, _, _)
xorLoop_keep(self, oth, todo, copyOnWrite) ==
    IF todo = {} THEN self
    ELSE LET other_key == SetMin(todo)
             rest == todo \ {other_key}
         IN  IF other_key \notin DOMAIN self
             THEN xorLoop_keep(MapPut(self, other_key,
                                      Roaring_setCopyOnWrite(oth[other_key],
                                                             copyOnWrite)),
                               oth, rest, copyOnWrite)
             ELSE xorLoop_keep(MapPut(self, other_key,
                                      Roaring_xor(self[other_key], oth[other_key])),
                               oth, rest, copyOnWrite)

RECURSIVE xorLoop(_, _, _, _)
xorLoop(self, oth, todo, copyOnWrite) ==
    IF todo = {} THEN self
    ELSE LET other_key == SetMin(todo)
             rest == todo \ {other_key}
             insert_happened == other_key \notin DOMAIN self
         IN  IF insert_happened
             THEN xorLoop(MapPut(self, other_key,
                                 Roaring_setCopyOnWrite(oth[other_key], copyOnWrite)),
                          oth, rest, copyOnWrite)
             ELSE LET self_bitmap == Roaring_xor(self[other_key], oth[other_key])
                  IN  IF Roaring_isEmpty(self_bitmap)
                      THEN xorLoop(MapErase(self, other_key), oth, rest, copyOnWrite)
                      ELSE xorLoop(MapPut(self, other_key, self_bitmap),
                                   oth, rest, copyOnWrite)

xor_assign(m, o, same) ==
    IF same THEN [m EXCEPT !.roarings = EmptyMap]
    ELSE [m EXCEPT !.roarings = xorLoop(@, o.roarings, DOMAIN o.roarings,
                                        m.copyOnWrite)]

\* ------------------------------------------------------------ fastunion
\* iters[i] is the position of input i in its outer map.  pq is the
\* std::priority_queue of input indices: a binary heap kept in a vector
\* (std::push_heap and std::pop_heap), ordered by pqComp, which looks up the
\* current keys through iters at the time it is called.
\* a comparison that is not inverted: the queue then prefers the largest key
pqComp_less(inputs, iters, left_index, right_index) ==
    KeyAt(inputs[left_index].roarings, iters[left_index])
        < KeyAt(inputs[right_index].roarings, iters[right_index])

\* auto pqComp = [&iters](size_t left_index, size_t right_index)
pqComp(inputs, iters, left_index, right_index) ==
    KeyAt(inputs[left_index].roarings, iters[left_index])
        > KeyAt(inputs[right_index].roarings, iters[right_index])

Swap(heap, a, b) == [heap EXCEPT ![a] = heap[b], ![b] = heap[a]]

\* std::push_heap: the last element moves up while its parent compares less
RECURSIVE siftUp(_, _, _, _)
siftUp(inputs, iters, heap, idx) ==
    IF idx > 1 /\ pqComp(inputs, iters, heap[idx \div 2], heap[idx])
    THEN siftUp(inputs, iters, Swap(heap, idx \div 2, idx), idx \div 2)
    ELSE heap

\* std::pop_heap: the element at idx moves down below its greater child
RECURSIVE siftDown(_, _, _, _)
siftDown(inputs, iters, heap, idx) ==
    LET l == 2 * idx
        r == 2 * idx + 1
        child == IF r <= Len(heap) /\ pqComp(inputs, iters, heap[l], heap[r])
                 THEN r ELSE l
    IN  IF l <= Len(heap) /\ pqComp(inputs, iters, heap[idx], heap[child])
        THEN siftDown(inputs, iters, Swap(heap, idx, child), child)
        ELSE heap

\* pq.push(i)
pqPush(inputs, iters, pq, i) ==
    siftUp(inputs, iters, Append(pq, i), Len(pq) + 1)

\* pq.pop()
pqPop(inputs, iters, pq) ==
    IF Len(pq) <= 1 THEN <<>>
    ELSE siftDown(inputs, iters,
                  [SubSeq(pq, 1, Len(pq) - 1) EXCEPT ![1] = pq[Len(pq)]], 1)

\* pq.top()
pqTop(inputs, iters, pq) == pq[1]

\* for (size_t i = 0; i < n; ++i) if (iters[i] != ends[i]) pq.push(i);
\* the inputs are numbered from 1 here
RECURSIVE pqPopulate(_, _, _, _, _)
pqPopulate(n, inputs, iters, pq, i) ==
    IF i > n THEN pq
    ELSE pqPopulate(n, inputs, iters,
                    IF iters[i] # MapEnd(inputs[i].roarings)
                    THEN pqPush(inputs, iters, pq, i) ELSE pq,
                    i + 1)

\* an inner loop that keeps only the first inner bitmap of a round
RECURSIVE fastunionGather_first(_, _, _, _, _)
fastunionGather_first(inputs, iters, pq, target_key, bitmapsToProcess) ==
    IF pq = <<>> THEN [iters |-> iters, pq |-> pq, bitmaps |-> bitmapsToProcess]
    ELSE LET next_index == pqTop(inputs, iters, pq)
             rs == inputs[next_index].roarings
             next_key == KeyAt(rs, iters[next_index])
             advanced == iters[next_index] + 1
         IN  IF next_key # target_key
             THEN [iters |-> iters, pq |-> pq, bitmaps |-> bitmapsToProcess]
             ELSE fastunionGather_first(
                      inputs,
                      [iters EXCEPT ![next_index] = advanced],
                      IF advanced # MapEnd(rs)
                      THEN pqPush(inputs, [iters EXCEPT ![next_index] = advanced],
                                  pqPop(inputs, iters, pq), next_index)
                      ELSE pqPop(inputs, iters, pq),
                      target_key,
                      IF bitmapsToProcess = <<>> THEN <<rs[next_key]>>
                      ELSE bitmapsToProcess)

\* the inner while loop: gathers the inner bitmaps sharing target_key
RECURSIVE fastunionGather(_, _, _, _, _)
fastunionGather(inputs, iters, pq, target_key, bitmapsToProcess) ==
    IF pq = <<>> THEN [iters |-> iters, pq |-> pq, bitmaps |-> bitmapsToProcess]
    ELSE LET next_index == pqTop(inputs, iters, pq)
             rs == inputs[next_index].roarings
             next_key == KeyAt(rs, iters[next_index])
             advanced == iters[next_index] + 1
         IN  IF next_key # target_key
             THEN [iters |-> iters, pq |-> pq, bitmaps |-> bitmapsToProcess]
             ELSE fastunionGather(
                      inputs,
                      [iters EXCEPT ![next_index] = advanced],
                      IF advanced # MapEnd(rs)
                      THEN pqPush(inputs, [iters EXCEPT ![next_index] = advanced],
                                  pqPop(inputs, iters, pq), next_index)
                      ELSE pqPop(inputs, iters, pq),
                      target_key,
                      Append(bitmapsToProcess, rs[next_key]))

\* the end of a round of the outer while loop, g being what the inner loop
\* left: result.roarings[target_key] = Roaring(innerResult)
RECURSIVE fastunionLoop(_, _, _, _)
fastunionEmit(inputs, g, target_key, result) ==
    fastunionLoop(inputs, g.iters, g.pq,
                  MapPut(result, target_key, Roaring_or_many(g.bitmaps)))

\* the outer while loop
fastunionLoop(inputs, iters, pq, result) ==
    IF pq = <<>> THEN result
    ELSE LET top == pqTop(inputs, iters, pq)
             target_key == KeyAt(inputs[top].roarings, iters[top])
         IN  fastunionEmit(inputs,
                           fastunionGather(inputs, iters, pq, target_key, <<>>),
                           target_key, result)

fastunion(n, inputs) ==
    LET iters == [i \in 1 .. n |-> MapBegin(inputs[i].roarings)]
        pq == pqPopulate(n, inputs, iters, <<>>, 1)
    IN  [NewRoaring64Map EXCEPT
            !.roarings = fastunionLoop(inputs, iters, pq, EmptyMap)]

\* ----------------------------------------------- Roaring64Map: queries
\* a maximum that reads the last entry without skipping empty bitmaps
maximumLoop_noskip(rs, iter) ==
    IF iter = MapBegin(rs) THEN 0
    ELSE uniteBytes(KeyAt(rs, iter - 1), Roaring_maximum(rs[KeyAt(rs, iter - 1)]))

\* iter starts at end() and is decremented before it is read
RECURSIVE maximumLoop(_, _)
maximumLoop(rs, iter) ==
    IF iter = MapBegin(rs) THEN 0
    ELSE LET it == iter - 1
             key == KeyAt(rs, it)
         IN  IF ~Roaring_isEmpty(rs[key])
             THEN uniteBytes(key, Roaring_maximum(rs[key]))
             ELSE maximumLoop(rs, it)

maximum(m) == maximumLoop(m.roarings, MapEnd(m.roarings))

\* A std::reverse_iterator holds a base iterator and reads the entry before
\* it: crbegin() has base end(), crend() has base begin(), ++ decrements.
ReverseDeref(rs, base) == KeyAt(rs, base - 1)

RECURSIVE maximumLegacyLoop(_, _)
maximumLegacyLoop(rs, roaring_iter) ==
    IF roaring_iter = MapBegin(rs) THEN 0
    ELSE LET key == ReverseDeref(rs, roaring_iter)
         IN  IF ~Roaring_isEmpty(rs[key])
             THEN uniteBytes(key, Roaring_maximum(rs[key]))
             ELSE maximumLegacyLoop(rs, roaring_iter - 1)

maximum_legacy_impl(m) == maximumLegacyLoop(m.roarings, MapEnd(m.roarings))

\* a minimum that reads the first entry without skipping empty bitmaps
minimumLoop_noskip(rs, iter) ==
    IF iter = MapEnd(rs) THEN maxUint64
    ELSE uniteBytes(KeyAt(rs, iter), Roaring_minimum(rs[KeyAt(rs, iter)]))

RECURSIVE minimumLoop(_, _)
minimumLoop(rs, iter) ==
    IF iter = MapEnd(rs) THEN maxUint64
    ELSE LET innerKey == KeyAt(rs, iter)
         IN  IF ~Roaring_isEmpty(rs[innerKey])
             THEN uniteBytes(innerKey, Roaring_minimum(rs[innerKey]))
             ELSE minimumLoop(rs, iter + 1)

minimum(m) == minimumLoop(m.roarings, MapBegin(m.roarings))

contains32(m, x) ==
    0 \in DOMAIN m.roarings /\ Roaring_contains(m.roarings[0], x)

contains64(m, x) ==
    /\ highBytes(x) \in DOMAIN m.roarings
    /\ Roaring_contains(m.roarings[highBytes(x)], lowBytes(x))

\* In the program the constant 2^32 is both the number of values of the
\* low half (the cardinality of a full inner bitmap) and the number of
\* values of the high half (the size of a full outer map).
maxCardinality == LowCount

maxOuterSize == HighCount

\* a loop that sums the cardinalities and never clears the flag
RECURSIVE cardinalityLoop_noflag(_, _, _, _)
cardinalityLoop_noflag(rs, iter, result, allBitmapsAreMaxCardinality) ==
    IF iter = MapEnd(rs)
    THEN [result |-> result, allMax |-> allBitmapsAreMaxCardinality]
    ELSE cardinalityLoop_noflag(
             rs, iter + 1,
             (result + Roaring_cardinality(rs[KeyAt(rs, iter)])) % Mod64,
             allBitmapsAreMaxCardinality)

\* the for loop of cardinality_nothrow; result wraps as a uint64_t does
RECURSIVE cardinalityLoop(_, _, _, _)
cardinalityLoop(rs, iter, result, allBitmapsAreMaxCardinality) ==
    IF iter = MapEnd(rs)
    THEN [result |-> result, allMax |-> allBitmapsAreMaxCardinality]
    ELSE LET bc == Roaring_cardinality(rs[KeyAt(rs, iter)])
         IN  cardinalityLoop(rs, iter + 1, (result + bc) % Mod64,
                             allBitmapsAreMaxCardinality /\ bc = maxCardinality)

\* a cardinality_nothrow that does not compare the size of the outer map
cardinality_nothrow_nosize(m) ==
    LET r == cardinalityLoop(m.roarings, MapBegin(m.roarings), 0, TRUE)
    IN  IF r.allMax
        THEN [first |-> 0, second |-> TRUE]
        ELSE [first |-> r.result, second |-> FALSE]

\* std::pair<uint64_t, bool>
cardinality_nothrow(m) ==
    LET r == cardinalityLoop(m.roarings, MapBegin(m.roarings), 0, TRUE)
    IN  IF MapSize(m.roarings) = maxOuterSize /\ r.allMax
        THEN [first |-> 0, second |-> TRUE]
        ELSE [first |-> r.result, second |-> FALSE]

\* throws std::length_error (or terminates) when the bitmap is full
cardinality(m) ==
    LET result == cardinality_nothrow(m)
    IN  IF ~result.second
        THEN [throws |-> FALSE, value |-> result.first]
        ELSE [throws |-> TRUE, value |-> NoValue]

RECURSIVE isEmptyLoop(_, _)
isEmptyLoop(rs, iter) ==
    IF iter = MapEnd(rs) THEN TRUE
    ELSE IF ~Roaring_isEmpty(rs[KeyAt(rs, iter)]) THEN FALSE
    ELSE isEmptyLoop(rs, iter + 1)

isEmpty(m) == isEmptyLoop(m.roarings, MapBegin(m.roarings))

isFull(m) == cardinality_nothrow(m).second

\* a select that does not consume the cardinalities of the entries it passes
RECURSIVE selectLoop_nosub(_, _, _)
selectLoop_nosub(rs, iter, rnk) ==
    IF iter = MapEnd(rs) THEN [ok |-> FALSE, element |-> NoValue]
    ELSE LET key == KeyAt(rs, iter)
             bitmap == rs[key]
         IN  IF rnk < Roaring_cardinality(bitmap)
             THEN [ok |-> TRUE,
                   element |-> uniteBytes(
                       key, Roaring_selectValue(bitmap, rnk % LowCount))]
             ELSE selectLoop_nosub(rs, iter + 1, rnk)

\* the for loop of select; rnk is the rank left to consume
RECURSIVE selectLoop(_, _, _)
selectLoop(rs, iter, rnk) ==
    IF iter = MapEnd(rs) THEN [ok |-> FALSE, element |-> NoValue]
    ELSE LET key == KeyAt(rs, iter)
             bitmap == rs[key]
             sub_cardinality == Roaring_cardinality(bitmap)
         IN  IF rnk < sub_cardinality
             THEN IF ~Roaring_select(bitmap, rnk % LowCount)
                  THEN [ok |-> FALSE, element |-> NoValue]
                  ELSE [ok |-> TRUE,
                        element |-> uniteBytes(
                            key, Roaring_selectValue(bitmap, rnk % LowCount))]
             ELSE selectLoop(rs, iter + 1, (rnk - sub_cardinality) % Mod64)

select(m, rnk) == selectLoop(m.roarings, MapBegin(m.roarings), rnk)

\* the for loop of rank: the cardinalities of the entries before dest_iter
RECURSIVE rankLoop(_, _, _, _)
rankLoop(rs, iter, dest_iter, result) ==
    IF iter = dest_iter THEN result
    ELSE rankLoop(rs, iter + 1, dest_iter,
                  (result + Roaring_cardinality(rs[KeyAt(rs, iter)])) % Mod64)

\* a rank that forgets the entry at highBytes(x)
rank_noinner(m, x) ==
    rankLoop(m.roarings, MapBegin(m.roarings),
             LowerBound(m.roarings, highBytes(x)), 0)

rank(m, x) ==
    LET rs == m.roarings
        dest_iter == LowerBound(rs, highBytes(x))
        result == rankLoop(rs, MapBegin(rs), dest_iter, 0)
    IN  IF dest_iter # MapEnd(rs) /\ KeyAt(rs, dest_iter) = highBytes(x)
        THEN (result + Roaring_rank(rs[highBytes(x)], lowBytes(x))) % Mod64
        ELSE result

\* ------------------------------------------ Roaring64Map: runOptimize
\* Roaring::runOptimize: whether the inner bitmap ends with a run container,
\* which it does when the run encoding is smaller, that is (at this scale)
\* when some run holds more than one value.
Roaring_runOptimize(b) ==
    Cardinality({x \in b.bits : (x - 1) \notin b.bits}) < Cardinality(b.bits)

\* std::accumulate(roarings.begin(), roarings.end(), previous, ...)
RECURSIVE runOptimizeLoop(_, _, _)
runOptimizeLoop(rs, iter, previous) ==
    IF iter = MapEnd(rs) THEN previous
    ELSE runOptimizeLoop(rs, iter + 1,
                         Roaring_runOptimize(rs[KeyAt(rs, iter)]) /\ previous)

\* bool runOptimize()
runOptimize(m) == runOptimizeLoop(m.roarings, MapBegin(m.roarings), TRUE)

\* ------------------------------------------ Roaring64Map: shrinkToFit
\* Roaring::shrinkToFit: the bytes saved; the elements stay, and a bitmap
\* held as a set of values has no spare capacity to give back
Roaring_shrinkToFit(b) == 0

\* a loop that steps over the entry that follows an erased one
RECURSIVE shrinkToFitLoop_skipNext(_, _, _)
shrinkToFitLoop_skipNext(rs, iter, savedBytes) ==
    IF iter >= MapEnd(rs) THEN [roarings |-> rs, savedBytes |-> savedBytes]
    ELSE IF Roaring_isEmpty(rs[KeyAt(rs, iter)])
    THEN shrinkToFitLoop_skipNext(MapErase(rs, KeyAt(rs, iter)), iter + 1,
                                  savedBytes + 88)
    ELSE shrinkToFitLoop_skipNext(rs, iter + 1,
             savedBytes + Roaring_shrinkToFit(rs[KeyAt(rs, iter)]))

\* while (iter != roarings.end()) { next_iter = std::next(iter); ... ;
\* iter = next_iter; }: once the entry at iter is erased, next_iter stands
\* at the position iter had
RECURSIVE shrinkToFitLoop(_, _, _)
shrinkToFitLoop(rs, iter, savedBytes) ==
    IF iter >= MapEnd(rs) THEN [roarings |-> rs, savedBytes |-> savedBytes]
    ELSE IF Roaring_isEmpty(rs[KeyAt(rs, iter)])
    THEN shrinkToFitLoop(MapErase(rs, KeyAt(rs, iter)), iter, savedBytes + 88)
    ELSE shrinkToFitLoop(rs, iter + 1,
             savedBytes + Roaring_shrinkToFit(rs[KeyAt(rs, iter)]))

\* size_t shrinkToFit(): the bitmap it leaves and the bytes it reports
shrinkToFit(m) ==
    LET done == shrinkToFitLoop(m.roarings, MapBegin(m.roarings), 0)
    IN  [bitmap |-> [m EXCEPT !.roarings = done.roarings],
         savedBytes |-> done.savedBytes]

\* ---------------------------------------- Roaring64Map: serialization
sizeofUint64 == 8

sizeofUint32 == 4

\* std::memcpy(buf, &v, n): the n bytes of v, lowest first
RECURSIVE ToBytes(_, _)
ToBytes(v, n) ==
    IF n = 0 THEN <<>> ELSE <<v % 256>> \o ToBytes(v \div 256, n - 1)

\* std::memcpy(&v, buf + pos, n): pos counts from 0
RECURSIVE FromBytes(_, _, _)
FromBytes(buf, pos, n) ==
    IF n = 0 THEN 0 ELSE buf[pos + 1] + 256 * FromBytes(buf, pos + 1, n - 1)

\* The serialized body of an inner bitmap: the count of its values and the
\* values in ascending order, 4 bytes each; the non-portable form puts one
\* tag byte in front.
RECURSIVE Roaring_valueBytes(_)
Roaring_valueBytes(S) ==
    IF S = {} THEN <<>>
    ELSE ToBytes(SetMin(S), sizeofUint32) \o Roaring_valueBytes(S \ {SetMin(S)})

Roaring_write(b, portable) ==
    (IF portable THEN <<>> ELSE <<1>>)
        \o ToBytes(Cardinality(b.bits), sizeofUint32) \o Roaring_valueBytes(b.bits)

Roaring_getSizeInBytes(b, portable) ==
    (IF portable THEN 0 ELSE 1) + sizeofUint32 * (1 + Cardinality(b.bits))

Roaring_read(buf, pos, portable) ==
    LET start == IF portable THEN pos ELSE pos + 1
        n == FromBytes(buf, start, sizeofUint32)
    IN  [bits |-> {FromBytes(buf, start + sizeofUint32 * i, sizeofUint32) :
                       i \in 1 .. n},
         cow |-> FALSE]

\* Roaring::readSafe(buf, maxbytes): fails when the portable body does not
\* fit in maxbytes; reads tells how many bytes from pos on it looked at.
Roaring_readSafe(buf, pos, maxbytes) ==
    IF maxbytes < sizeofUint32
    THEN [ok |-> FALSE, bitmap |-> NewRoaring, reads |-> 0]
    ELSE LET n == FromBytes(buf, pos, sizeofUint32)
         IN  IF maxbytes < sizeofUint32 * (1 + n)
             THEN [ok |-> FALSE, bitmap |-> NewRoaring, reads |-> sizeofUint32]
             ELSE [ok |-> TRUE, bitmap |-> Roaring_read(buf, pos, TRUE),
                   reads |-> sizeofUint32 * (1 + n)]

\* roarings.emplace(key, value): an entry that exists is kept
emplaceOrInsert(rs, key, value) ==
    IF key \in DOMAIN rs THEN rs ELSE MapPut(rs, key, value)

\* the std::for_each of write: key, then inner bitmap, per entry
RECURSIVE writeLoop(_, _, _)
writeLoop(rs, iter, portable) ==
    IF iter = MapEnd(rs) THEN <<>>
    ELSE ToBytes(KeyAt(rs, iter), sizeofUint32)
             \o Roaring_write(rs[KeyAt(rs, iter)], portable)
             \o writeLoop(rs, iter + 1, portable)

\* size_t write(char *buf, bool portable): the bytes put in buf; the value
\* returned, buf - orig, is their number
write(m, portable) ==
    ToBytes(MapSize(m.roarings), sizeofUint64)
        \o writeLoop(m.roarings, MapBegin(m.roarings), portable)

\* a getSizeInBytes that leaves out the bytes of the keys
RECURSIVE getSizeInBytesLoop_nokeys(_, _, _, _)
getSizeInBytesLoop_nokeys(rs, iter, portable, previous) ==
    IF iter = MapEnd(rs) THEN previous - MapSize(rs) * sizeofUint32
    ELSE getSizeInBytesLoop_nokeys(
             rs, iter + 1, portable,
             previous + Roaring_getSizeInBytes(rs[KeyAt(rs, iter)], portable))

\* the std::accumulate of getSizeInBytes
RECURSIVE getSizeInBytesLoop(_, _, _, _)
getSizeInBytesLoop(rs, iter, portable, previous) ==
    IF iter = MapEnd(rs) THEN previous
    ELSE getSizeInBytesLoop(
             rs, iter + 1, portable,
             previous + Roaring_getSizeInBytes(rs[KeyAt(rs, iter)], portable))

\* size_t getSizeInBytes(bool portable)
getSizeInBytes(m, portable) ==
    getSizeInBytesLoop(m.roarings, MapBegin(m.roarings), portable,
                       sizeofUint64 + MapSize(m.roarings) * sizeofUint32)

\* the for loop of read
RECURSIVE readLoop(_, _, _, _, _, _)
readLoop(buf, pos, lcv, map_size, portable, result) ==
    IF lcv >= map_size THEN result
    ELSE LET key == FromBytes(buf, pos, sizeofUint32)
             read_var == Roaring_read(buf, pos + sizeofUint32, portable)
         IN  readLoop(buf,
                      pos + sizeofUint32 + Roaring_getSizeInBytes(read_var, portable),
                      lcv + 1, map_size, portable,
                      emplaceOrInsert(result, key, read_var))

\* static Roaring64Map read(const char *buf, bool portable)
read(buf, portable) ==
    [NewRoaring64Map EXCEPT
        !.roarings = readLoop(buf, sizeofUint64, 0,
                              FromBytes(buf, 0, sizeofUint64), portable, EmptyMap)]

\* What a readSafe call did: ok is FALSE when it ended in ROARING_TERMINATE,
\* underflow tells whether maxbytes was decremented below zero, reads is the
\* number of leading bytes of buf it looked at.
ReadSafeResult(ok, result, underflow, reads) ==
    [ok |-> ok, result |-> result, underflow |-> underflow, reads |-> reads]

\* a loop that reads the key without looking at the budget
RECURSIVE readSafeLoop_nokeycheck(_, _, _, _, _, _, _)
readSafeLoop_nokeycheck(buf, pos, maxbytes, lcv, map_size, result, underflow) ==
    IF lcv >= map_size THEN ReadSafeResult(TRUE, result, underflow, pos)
    ELSE LET key == FromBytes(buf, pos, sizeofUint32)
             inner == Roaring_readSafe(buf, pos + sizeofUint32,
                                       maxbytes - sizeofUint32)
             tz == Roaring_getSizeInBytes(inner.bitmap, TRUE)
         IN  IF ~inner.ok
             THEN ReadSafeResult(FALSE, EmptyMap, underflow \/ maxbytes < sizeofUint32,
                                 pos + sizeofUint32 + inner.reads)
             ELSE readSafeLoop_nokeycheck(
                      buf, pos + sizeofUint32 + tz,
                      (maxbytes - sizeofUint32 - tz) % (2 ^ 30),
                      lcv + 1, map_size,
                      emplaceOrInsert(result, key, inner.bitmap),
                      underflow \/ tz > maxbytes - sizeofUint32)

\* the for loop of readSafe; maxbytes is a size_t, here of 30 bits
RECURSIVE readSafeLoop(_, _, _, _, _, _, _)
readSafeLoop(buf, pos, maxbytes, lcv, map_size, result, underflow) ==
    IF lcv >= map_size THEN ReadSafeResult(TRUE, result, underflow, pos)
    ELSE IF maxbytes < sizeofUint32
    THEN ReadSafeResult(FALSE, EmptyMap, underflow, pos)
    ELSE LET key == FromBytes(buf, pos, sizeofUint32)
             inner == Roaring_readSafe(buf, pos + sizeofUint32,
                                       maxbytes - sizeofUint32)
             tz == Roaring_getSizeInBytes(inner.bitmap, TRUE)
         IN  IF ~inner.ok
             THEN ReadSafeResult(FALSE, EmptyMap, underflow,
                                 pos + sizeofUint32 + inner.reads)
             ELSE readSafeLoop(
                      buf, pos + sizeofUint32 + tz,
                      (maxbytes - sizeofUint32 - tz) % (2 ^ 30),
                      lcv + 1, map_size,
                      emplaceOrInsert(result, key, inner.bitmap),
                      underflow \/ tz > maxbytes - sizeofUint32)

\* static Roaring64Map readSafe(const char *buf, size_t maxbytes)
readSafe(buf, maxbytes) ==
    IF maxbytes < sizeofUint64 THEN ReadSafeResult(FALSE, EmptyMap, FALSE, 0)
    ELSE LET r == readSafeLoop(buf, sizeofUint64, maxbytes - sizeofUint64, 0,
                               FromBytes(buf, 0, sizeofUint64), EmptyMap, FALSE)
         IN  IF r.ok
             THEN [r EXCEPT !.result = [NewRoaring64Map EXCEPT !.roarings = r.result]]
             ELSE r

\* ------------------------------------- Roaring64Map: frozen format
sizeofSizeT == 8

\* const size_t metadata_size = sizeof(size_t) + sizeof(uint32_t)
metadata_size == sizeofSizeT + sizeofUint32

\* a byte of the buffer that writeFrozen stepped over and did not write
Unwritten == -1

\* The frozen body of an inner bitmap: the count of its values and the
\* values in ascending order, 4 bytes each.  Roaring::frozenView refuses a
\* body that does not start at a multiple of 32 or that is not len bytes
\* long (it throws).
Roaring_getFrozenSizeInBytes(b) == sizeofUint32 * (1 + Cardinality(b.bits))

Roaring_writeFrozen(b) ==
    ToBytes(Cardinality(b.bits), sizeofUint32) \o Roaring_valueBytes(b.bits)

Roaring_frozenView(bytes, pos, address, len) ==
    IF address % 32 # 0 \/ len < sizeofUint32 \/ pos + len > Len(bytes)
    THEN [ok |-> FALSE, bitmap |-> NewRoaring]
    ELSE LET n == FromBytes(bytes, pos, sizeofUint32)
         IN  IF n < 0 \/ len # sizeofUint32 * (1 + n)
             THEN [ok |-> FALSE, bitmap |-> NewRoaring]
             ELSE [ok |-> TRUE, bitmap |-> Roaring_read(bytes, pos, TRUE)]

\* a padding to a multiple of 32 that leaves no room for the metadata
RECURSIVE padFrozen_nometa(_)
padFrozen_nometa(buf) ==
    IF buf % 32 # 0 THEN padFrozen_nometa(buf + 1) ELSE buf

\* while (((uintptr_t)buf + metadata_size) % 32 != 0) buf++, and the same
\* loop on ret in getFrozenSizeInBytes
RECURSIVE padFrozen(_)
padFrozen(buf) ==
    IF (buf + metadata_size) % 32 # 0 THEN padFrozen(buf + 1) ELSE buf

\* the for loop of writeFrozen: start is the address of the buffer, bytes
\* what it holds up to buf, bodies the addresses given to the inner
\* writeFrozen
RECURSIVE writeFrozenLoop(_, _, _, _, _)
writeFrozenLoop(rs, iter, start, bytes, bodies) ==
    IF iter = MapEnd(rs) THEN [bytes |-> bytes, bodies |-> bodies]
    ELSE LET inner == rs[KeyAt(rs, iter)]
             frozenSizeInBytes == Roaring_getFrozenSizeInBytes(inner)
             buf == start + Len(bytes)
             padded == padFrozen(buf)
             body == padded + sizeofSizeT + sizeofUint32
         IN  writeFrozenLoop(rs, iter + 1, start,
                 bytes \o [p \in 1 .. (padded - buf) |-> Unwritten]
                       \o ToBytes(frozenSizeInBytes, sizeofSizeT)
                       \o ToBytes(KeyAt(rs, iter), sizeofUint32)
                       \o Roaring_writeFrozen(inner),
                 bodies \cup {body})

\* void writeFrozen(char *buf) const: what the buffer holds from buf up to
\* where the function stopped, and the addresses of the inner bodies
writeFrozen(m, buf) ==
    writeFrozenLoop(m.roarings, MapBegin(m.roarings), buf,
                    ToBytes(MapSize(m.roarings), sizeofUint64), {})

\* the for loop of getFrozenSizeInBytes
RECURSIVE getFrozenSizeInBytesLoop(_, _, _)
getFrozenSizeInBytesLoop(rs, iter, ret) ==
    IF iter = MapEnd(rs) THEN ret
    ELSE getFrozenSizeInBytesLoop(
             rs, iter + 1,
             padFrozen(ret) + metadata_size
                 + Roaring_getFrozenSizeInBytes(rs[KeyAt(rs, iter)]))

\* size_t getFrozenSizeInBytes() const
getFrozenSizeInBytes(m) ==
    getFrozenSizeInBytesLoop(m.roarings, MapBegin(m.roarings), sizeofUint64)

\* the for loop of frozenView: pos is buf counted from the start of the
\* buffer, whose address is start; ok turns false when Roaring::frozenView
\* throws
RECURSIVE frozenViewLoop(_, _, _, _, _, _)
frozenViewLoop(bytes, start, pos, lcv, map_size, result) ==
    IF lcv >= map_size THEN [ok |-> TRUE, bitmap |-> result]
    ELSE LET padded == padFrozen(start + pos) - start
             len == FromBytes(bytes, padded, sizeofSizeT)
             key == FromBytes(bytes, padded + sizeofSizeT, sizeofUint32)
             body == padded + sizeofSizeT + sizeofUint32
             read_var == Roaring_frozenView(bytes, body, start + body, len)
         IN  IF ~read_var.ok THEN [ok |-> FALSE, bitmap |-> result]
             ELSE frozenViewLoop(bytes, start, body + len, lcv + 1, map_size,
                      [result EXCEPT !.roarings =
                          emplaceOrInsert(@, key, read_var.bitmap)])

\* static const Roaring64Map frozenView(const char *buf)
frozenView(bytes, buf) ==
    frozenViewLoop(bytes, buf, sizeofUint64, 0,
                   FromBytes(bytes, 0, sizeofUint64), NewRoaring64Map)

\* ------------------------------ Roaring64Map: operator== and isSubset
Roaring_equals(a, b) == a.bits = b.bits

Roaring_isSubset(a, b) == a.bits \subseteq b.bits

\* an operator== that does not advance past empty bitmaps
RECURSIVE skipEmpty_stay(_, _)
skipEmpty_stay(rs, iter) == iter

\* while (iter != end && iter->second.isEmpty()) ++iter;
RECURSIVE skipEmpty(_, _)
skipEmpty(rs, iter) ==
    IF iter # MapEnd(rs) /\ Roaring_isEmpty(rs[KeyAt(rs, iter)])
    THEN skipEmpty(rs, iter + 1)
    ELSE iter

\* the while (true) loop of operator==
RECURSIVE equalsLoop(_, _, _, _)
equalsLoop(self, oth, self_iter0, other_iter0) ==
    LET self_iter == skipEmpty(self, self_iter0)
        other_iter == skipEmpty(oth, other_iter0)
    IN  IF self_iter = MapEnd(self) \/ other_iter = MapEnd(oth)
        THEN self_iter = MapEnd(self) /\ other_iter = MapEnd(oth)
        ELSE LET self_key == KeyAt(self, self_iter)
                 other_key == KeyAt(oth, other_iter)
             IN  IF self_key # other_key
                    \/ ~Roaring_equals(self[self_key], oth[other_key])
                 THEN FALSE
                 ELSE equalsLoop(self, oth, self_iter + 1, other_iter + 1)

\* bool operator==(const Roaring64Map &other) const
equals(m, o) ==
    equalsLoop(m.roarings, o.roarings, MapBegin(m.roarings), MapBegin(o.roarings))

\* The first loop of isSubset over the entries of this at the positions
\* iter, iter + 1, ...: failed when some inner bitmap is not a subset, and
\* someBitmapIsStrictSubset as the loop leaves it.
RECURSIVE isSubsetLoop(_, _, _, _, _)
isSubsetLoop(self, oth, iter, requireStrict, someBitmapIsStrictSubset) ==
    IF iter = MapEnd(self)
    THEN [failed |-> FALSE, someBitmapIsStrictSubset |-> someBitmapIsStrictSubset]
    ELSE LET self_key == KeyAt(self, iter)
             self_bitmap == self[self_key]
         IN  IF Roaring_isEmpty(self_bitmap)
             THEN isSubsetLoop(self, oth, iter + 1, requireStrict,
                               someBitmapIsStrictSubset)
             ELSE IF self_key \notin DOMAIN oth
             THEN [failed |-> TRUE, someBitmapIsStrictSubset |-> FALSE]
             ELSE IF ~Roaring_isSubset(self_bitmap, oth[self_key])
             THEN [failed |-> TRUE, someBitmapIsStrictSubset |-> FALSE]
             ELSE isSubsetLoop(self, oth, iter + 1, requireStrict,
                      \/ someBitmapIsStrictSubset
                      \/ /\ requireStrict
                         /\ Roaring_cardinality(self_bitmap)
                                # Roaring_cardinality(oth[self_key]))

\* a condition (b) that counts the empty bitmaps of other
RECURSIVE isSubsetOtherLoop_countEmpty(_, _, _)
isSubsetOtherLoop_countEmpty(self, oth, iter) ==
    IF iter = MapEnd(oth) THEN FALSE
    ELSE LET other_key == KeyAt(oth, iter)
         IN  IF other_key \notin DOMAIN self \/ Roaring_isEmpty(self[other_key])
             THEN TRUE
             ELSE isSubsetOtherLoop_countEmpty(self, oth, iter + 1)

\* The second loop of isSubset, condition (b): other has a non-empty bitmap
\* at a key where this has none or an empty one.
RECURSIVE isSubsetOtherLoop(_, _, _)
isSubsetOtherLoop(self, oth, iter) ==
    IF iter = MapEnd(oth) THEN FALSE
    ELSE LET other_key == KeyAt(oth, iter)
         IN  IF Roaring_isEmpty(oth[other_key])
             THEN isSubsetOtherLoop(self, oth, iter + 1)
             ELSE IF other_key \notin DOMAIN self \/ Roaring_isEmpty(self[other_key])
             THEN TRUE
             ELSE isSubsetOtherLoop(self, oth, iter + 1)

\* bool isSubset(const Roaring64Map &other, bool requireStrict) const
isSubset(m, o, requireStrict) ==
    LET first == isSubsetLoop(m.roarings, o.roarings, MapBegin(m.roarings),
                              requireStrict, FALSE)
    IN  IF first.failed THEN FALSE
        ELSE IF ~requireStrict THEN TRUE
        ELSE IF first.someBitmapIsStrictSubset THEN TRUE
        ELSE isSubsetOtherLoop(m.roarings, o.roarings, MapBegin(o.roarings))

isStrictSubset(m, o) == isSubset(m, o, TRUE)

\* ----------------------------------------------------- reference notions
\* the set of 64-bit values a bitmap holds
Elements(m) ==
    UNION {{uniteBytes(k, lb) : lb \in m.roarings[k].bits} : k \in DOMAIN m.roarings}

EmptyKeys(m) == {k \in DOMAIN m.roarings : m.roarings[k].bits = {}}

\* the sum of f[k] over the k of S
RECURSIVE SumOver(_, _)
SumOver(f, S) ==
    IF S = {} THEN 0
    ELSE LET k == CHOOSE x \in S : TRUE IN f[k] + SumOver(f, S \ {k})

MaxOrZero(S) == IF S = {} THEN 0 ELSE SetMax(S)

RangeOps == {"addRangeClosed32", "addRangeClosed64", "removeRangeClosed32",
             "removeRangeClosed64", "flipClosed"}

RemoveOps == {"remove32", "remove64", "removeChecked32", "removeChecked64"}

\* ------------------------------------------------ containers/bitset.c
\* A bitset_container_t is an array of BITSET_CONTAINER_SIZE_IN_WORDS words
\* and an int32_t cardinality.  A word is held as the set of the positions
\* of its one bits, so that | & ^ are union, intersection and symmetric
\* difference, ~ is the complement within the word and _mm_popcnt_u64 is the
\* size of the set.  The sizes are scaled down: a word has WordBits bits
\* (64 in the program), a 32-byte register holds wordsin256 words (4 in the
\* program) and the AVX build works in blocks of repeat registers (8 in the
\* program); MaxBlocks such blocks make a container (32 in the program).
repeat == 2

wordsin256 == 2

BITSET_CONTAINER_SIZE_IN_WORDS == wordsin256 * repeat * MaxBlocks

WordIndexes == 0 .. (BITSET_CONTAINER_SIZE_IN_WORDS - 1)

\* the positions of a word, and the values of the uint16_t i of set and unset
AllBits == 0 .. (WordBits - 1)

BitIndexes == 0 .. (BITSET_CONTAINER_SIZE_IN_WORDS * WordBits - 1)

\* the cardinality field of a container whose count was not computed
UnknownCardinality == -1

popcnt(w) == Cardinality(w)

\* bitset_container_t *bitset_container_create(): memset to 0, cardinality 0
bitset_container_create ==
    [array |-> [k \in WordIndexes |-> {}], cardinality |-> 0]

\* void bitset_container_set(bitset_container_t *bitset, uint16_t i)
bitset_container_set(bitset, i) ==
    LET oldw == bitset.array[i \div WordBits]
        neww == oldw \cup {i % WordBits}
    IN  [array |-> [bitset.array EXCEPT ![i \div WordBits] = neww],
         cardinality |-> bitset.cardinality + (IF oldw # neww THEN 1 ELSE 0)]

\* an unset that leaves the cardinality field as it is
bitset_container_unset_nocount(bitset, i) ==
    LET oldw == bitset.array[i \div WordBits]
        neww == oldw \cap (AllBits \ {i % WordBits})
    IN  [array |-> [bitset.array EXCEPT ![i \div WordBits] = neww],
         cardinality |-> bitset.cardinality]

\* void bitset_container_unset(bitset_container_t *bitset, uint16_t i)
bitset_container_unset(bitset, i) ==
    LET oldw == bitset.array[i \div WordBits]
        neww == oldw \cap (AllBits \ {i % WordBits})
    IN  [array |-> [bitset.array EXCEPT ![i \div WordBits] = neww],
         cardinality |-> bitset.cardinality - (IF oldw # neww THEN 1 ELSE 0)]

\* BITSET_CONTAINER_FN(xor, ^, ...), (or, |, ...), (and, &, ...) and
\* (andnot, &~, ...)
OpNames == {"xor", "or", "and", "andnot"}

\* (w1) opsymbol (w2)
opsymbol(opname, w1, w2) ==
    CASE opname = "xor" -> (w1 \ w2) \cup (w2 \ w1)
      [] opname = "or" -> w1 \cup w2
      [] opname = "and" -> w1 \cap w2
      [] opname = "andnot" -> w1 \cap (AllBits \ w2)

\* The functions take pointers, and bitsetout may point to the container of
\* bitset1 or bitset2: they are modelled on a memory mem of containers, with
\* bitset1, bitset2 and bitsetout the places of the three containers, and
\* every read of a1[k] or a2[k] is a read of the memory as it is then.
\* a loop that counts the first word of each pair only
RECURSIVE opLoop_halfCount(_, _, _, _, _, _, _)
opLoop_halfCount(mem, opname, bitset1, bitset2, bitsetout, k, count) ==
    IF k >= BITSET_CONTAINER_SIZE_IN_WORDS
    THEN [mem |-> mem, cardinality |-> count]
    ELSE LET w1 == opsymbol(opname, mem[bitset1].array[k], mem[bitset2].array[k])
             mem1 == [mem EXCEPT ![bitsetout].array[k] = w1]
             w2 == opsymbol(opname, mem1[bitset1].array[k + 1],
                            mem1[bitset2].array[k + 1])
             mem2 == [mem1 EXCEPT ![bitsetout].array[k + 1] = w2]
         IN  opLoop_halfCount(mem2, opname, bitset1, bitset2, bitsetout, k + 2,
                              count + popcnt(w1))

\* not USEAVX: for (int k = 0; k < BITSET_CONTAINER_SIZE_IN_WORDS; k += 2),
\* count being the local int32_t cardinality
RECURSIVE opLoop(_, _, _, _, _, _, _)
opLoop(mem, opname, bitset1, bitset2, bitsetout, k, count) ==
    IF k >= BITSET_CONTAINER_SIZE_IN_WORDS
    THEN [mem |-> mem, cardinality |-> count]
    ELSE LET w1 == opsymbol(opname, mem[bitset1].array[k], mem[bitset2].array[k])
             mem1 == [mem EXCEPT ![bitsetout].array[k] = w1]
             w2 == opsymbol(opname, mem1[bitset1].array[k + 1],
                            mem1[bitset2].array[k + 1])
             mem2 == [mem1 EXCEPT ![bitsetout].array[k + 1] = w2]
         IN  opLoop(mem2, opname, bitset1, bitset2, bitsetout, k + 2,
                    count + popcnt(w1) + popcnt(w2))

\* not USEAVX: int bitset_container_##opname(bitset1, bitset2, bitsetout):
\* the memory it leaves and the value it returns
bitset_container_op(mem, opname, bitset1, bitset2, bitsetout) ==
    LET done == opLoop(mem, opname, bitset1, bitset2, bitsetout, 0, 0)
        after == [done.mem EXCEPT ![bitsetout].cardinality = done.cardinality]
    IN  [mem |-> after, ret |-> after[bitsetout].cardinality]

\* not USEAVX: for (int k = 0; k < BITSET_CONTAINER_SIZE_IN_WORDS; k++)
RECURSIVE nocardLoop(_, _, _, _, _, _)
nocardLoop(mem, opname, bitset1, bitset2, bitsetout, k) ==
    IF k >= BITSET_CONTAINER_SIZE_IN_WORDS THEN mem
    ELSE LET w == opsymbol(opname, mem[bitset1].array[k], mem[bitset2].array[k])
         IN  nocardLoop([mem EXCEPT ![bitsetout].array[k] = w],
                        opname, bitset1, bitset2, bitsetout, k + 1)

\* not USEAVX: int bitset_container_##opname##_nocard(...)
bitset_container_op_nocard(mem, opname, bitset1, bitset2, bitsetout) ==
    LET done == nocardLoop(mem, opname, bitset1, bitset2, bitsetout, 0)
        after == [done EXCEPT ![bitsetout].cardinality = UnknownCardinality]
    IN  [mem |-> after, ret |-> after[bitsetout].cardinality]

\* _mm256_lddqu_si256((__m256i *)a + r): the r-th register of an array
lddqu(array, r) == [t \in 0 .. (wordsin256 - 1) |-> array[r * wordsin256 + t]]

\* _mm256_storeu_si256((__m256i *)ao + r, AO)
storeu(array, r, AO) ==
    [k \in DOMAIN array |->
        IF k \div wordsin256 = r THEN AO[k % wordsin256] ELSE array[k]]

\* avx_intrinsic(A, B): _mm256_xor_si256, _mm256_or_si256, _mm256_and_si256
\* and _mm256_andnot_si256, which is (NOT A) AND B
avx_intrinsic(opname, A, B) ==
    [t \in DOMAIN A |->
        CASE opname = "xor" -> (A[t] \ B[t]) \cup (B[t] \ A[t])
          [] opname = "or" -> A[t] \cup B[t]
          [] opname = "and" -> A[t] \cap B[t]
          [] opname = "andnot" -> (AllBits \ A[t]) \cap B[t]]

\* USEAVX: A1 and A2 are loaded from register r, AO = avx_intrinsic(A2, A1)
\* is stored at register r of the output
avxStep(mem, opname, bitset1, bitset2, bitsetout, r) ==
    LET A1 == lddqu(mem[bitset1].array, r)
        A2 == lddqu(mem[bitset2].array, r)
        AO == avx_intrinsic(opname, A2, A1)
    IN  [mem EXCEPT ![bitsetout].array = storeu(@, r, AO)]

\* USEAVX, _nocard: for (k = 0; k < BITSET_CONTAINER_SIZE_IN_WORDS / 4; k++),
\* 4 being the words of a register
RECURSIVE avxNocardLoop(_, _, _, _, _, _)
avxNocardLoop(mem, opname, bitset1, bitset2, bitsetout, k) ==
    IF k >= BITSET_CONTAINER_SIZE_IN_WORDS \div wordsin256 THEN mem
    ELSE avxNocardLoop(avxStep(mem, opname, bitset1, bitset2, bitsetout, k),
                       opname, bitset1, bitset2, bitsetout, k + 1)

\* USEAVX: int bitset_container_##opname##_nocard(...)
bitset_container_op_nocard_avx(mem, opname, bitset1, bitset2, bitsetout) ==
    LET done == avxNocardLoop(mem, opname, bitset1, bitset2, bitsetout, 0)
        after == [done EXCEPT ![bitsetout].cardinality = UnknownCardinality]
    IN  [mem |-> after, ret |-> after[bitsetout].cardinality]

\* USEAVX: the first for (int j = 0; j < repeat; ++j) of block i
RECURSIVE avxStoreLoop(_, _, _, _, _, _, _)
avxStoreLoop(mem, opname, bitset1, bitset2, bitsetout, i, j) ==
    IF j >= repeat THEN mem
    ELSE avxStoreLoop(avxStep(mem, opname, bitset1, bitset2, bitsetout,
                              (i * repeat) + j),
                      opname, bitset1, bitset2, bitsetout, i, j + 1)

\* USEAVX: the second for (int j = 0; j < repeat; ++j) of block i, which
\* adds the popcounts of ao[(i * repeat * wordsin256) + j * 4 + 0 .. 3]
RECURSIVE avxCountLoop(_, _, _, _)
avxCountLoop(ao, i, j, sum) ==
    IF j >= repeat THEN sum
    ELSE avxCountLoop(ao, i, j + 1,
             sum + SumOver([t \in 0 .. (wordsin256 - 1) |->
                               popcnt(ao[(i * repeat * wordsin256)
                                         + j * wordsin256 + t])],
                           0 .. (wordsin256 - 1)))

\* USEAVX: for (int i = 0; i < BITSET_CONTAINER_SIZE_IN_WORDS /
\*                             (wordsin256 * repeat); i++)
RECURSIVE avxLoop(_, _, _, _, _, _, _)
avxLoop(mem, opname, bitset1, bitset2, bitsetout, i, sum) ==
    IF i >= BITSET_CONTAINER_SIZE_IN_WORDS \div (wordsin256 * repeat)
    THEN [mem |-> mem, cardinality |-> sum]
    ELSE LET stored == avxStoreLoop(mem, opname, bitset1, bitset2, bitsetout,
                                    i, 0)
         IN  avxLoop(stored, opname, bitset1, bitset2, bitsetout, i + 1,
                     avxCountLoop(stored[bitsetout].array, i, 0, sum))

\* USEAVX: int bitset_container_##opname(bitset1, bitset2, bitsetout)
bitset_container_op_avx(mem, opname, bitset1, bitset2, bitsetout) ==
    LET done == avxLoop(mem, opname, bitset1, bitset2, bitsetout, 0, 0)
        after == [done.mem EXCEPT ![bitsetout].cardinality = done.cardinality]
    IN  [mem |-> after, ret |-> after[bitsetout].cardinality]

\* the function that a call of bitset_container_##opname or of its _nocard
\* variant runs in the build with or without USEAVX
bitset_container_call(useavx, nocard, mem, opname, bitset1, bitset2, bitsetout) ==
    IF useavx
    THEN IF nocard
         THEN bitset_container_op_nocard_avx(mem, opname, bitset1, bitset2, bitsetout)
         ELSE bitset_container_op_avx(mem, opname, bitset1, bitset2, bitsetout)
    ELSE IF nocard
         THEN bitset_container_op_nocard(mem, opname, bitset1, bitset2, bitsetout)
         ELSE bitset_container_op(mem, opname, bitset1, bitset2, bitsetout)

\* the number of bits set in a container
BitCount(bitset) ==
    SumOver([k \in WordIndexes |-> popcnt(bitset.array[k])], WordIndexes)

\* ---------------------------------------------------------- the machine
\* r64 is the bitmap under test and other a second bitmap; last records the
\* operation that was called last on r64: its name, the case of its
\* arguments and what it returned.
\* iterator is the Roaring64MapSetBitForwardIterator in use on r64, if any.
\* bitsets is the memory of the bitset_container_t objects of a program
\* that works on the container layer (containers/bitset.c).
None == "none"

Rec(op, tag, ret) == [op |-> op, tag |-> tag, ret |-> ret]

\* the case of a remove: whether the outer key of the value has an entry
KeyTag(m, key) == IF key \in DOMAIN m.roarings THEN "present" ELSE "absent"

\* the case of a range: min > max, the whole domain, or anything else
RangeTag(min, max, top) ==
    IF min > max THEN "inverted"
    ELSE IF min = 0 /\ max = top THEN "whole"
    ELSE "part"

\* ------------------------------- Roaring64MapSetBitForwardIterator
\* api::roaring_uint32_iterator_t i{}: no parent (no outer key, -1), no value
NewInnerIterator == [parent |-> -1, has_value |-> FALSE, current_value |-> 0]

\* bitsets holds the bitset containers in use, none in a program that only
\* uses Roaring64Map
NoBitsets == <<>>

\* no iterator is in use: position 0 is no position of the outer map
NoIterator == [map_iter |-> 0, i |-> NewInnerIterator]

\* roaring_init_iterator(&map_iter->second.roaring, &i), key being
\* map_iter->first: i stands on the smallest value of that inner bitmap
Roaring_initIterator(rs, key) ==
    IF rs[key].bits = {}
    THEN [parent |-> key, has_value |-> FALSE, current_value |-> maxUint32]
    ELSE [parent |-> key, has_value |-> TRUE, current_value |-> SetMin(rs[key].bits)]

\* roaring_advance_uint32_iterator(&i): the next value of i's inner bitmap
Roaring_advanceIterator(rs, i) ==
    LET larger == {x \in rs[i.parent].bits : x > i.current_value}
    IN  IF larger = {}
        THEN [i EXCEPT !.has_value = FALSE, !.current_value = maxUint32]
        ELSE [i EXCEPT !.current_value = SetMin(larger)]

\* a loop that moves to the next outer entry once and stays there
RECURSIVE advanceOuter_once(_, _, _)
advanceOuter_once(rs, map_iter, i) ==
    IF i.has_value THEN [map_iter |-> map_iter, i |-> i]
    ELSE IF map_iter + 1 = MapEnd(rs) THEN [map_iter |-> map_iter + 1, i |-> i]
    ELSE [map_iter |-> map_iter + 1,
          i |-> Roaring_initIterator(rs, KeyAt(rs, map_iter + 1))]

\* while (!i.has_value) { map_iter++; if (map_iter == map_end) return;
\*                        roaring_init_iterator(&map_iter->second.roaring, &i); }
RECURSIVE advanceOuter(_, _, _)
advanceOuter(rs, map_iter, i) ==
    IF i.has_value THEN [map_iter |-> map_iter, i |-> i]
    ELSE IF map_iter + 1 = MapEnd(rs) THEN [map_iter |-> map_iter + 1, i |-> i]
    ELSE advanceOuter(rs, map_iter + 1,
                      Roaring_initIterator(rs, KeyAt(rs, map_iter + 1)))

\* Roaring64MapSetBitForwardIterator(const Roaring64Map &parent, bool exhausted)
ForwardIterator(parent, exhausted) ==
    LET rs == parent.roarings
    IN  IF exhausted \/ MapSize(rs) = 0
        THEN [map_iter |-> MapEnd(rs), i |-> NewInnerIterator]
        ELSE advanceOuter(rs, MapBegin(rs),
                          Roaring_initIterator(rs, KeyAt(rs, MapBegin(rs))))

\* Roaring64Map::begin() and Roaring64Map::end()
begin(m) == ForwardIterator(m, FALSE)

end(m) == ForwardIterator(m, TRUE)

\* value_type operator*() const
deref(rs, iter) == uniteBytes(KeyAt(rs, iter.map_iter), iter.i.current_value)

\* type_of_iterator &operator++()
increment(rs, iter) ==
    advanceOuter(rs, iter.map_iter,
                 IF iter.i.has_value THEN Roaring_advanceIterator(rs, iter.i)
                 ELSE iter.i)

\* bool operator!=(const Roaring64MapSetBitForwardIterator &o) const, for an
\* o that stands at its end
notEqualsEnd(rs, iter) == iter.map_iter # MapEnd(rs)

\* roaring_move_uint32_iterator_equalorlarger(&i, val): i stands on the
\* smallest value >= val of its inner bitmap, if there is one
Roaring_moveIteratorEqualOrLarger(rs, i, val) ==
    LET larger == {x \in rs[i.parent].bits : x >= val}
    IN  IF larger = {}
        THEN [i EXCEPT !.has_value = FALSE, !.current_value = maxUint32]
        ELSE [i EXCEPT !.has_value = TRUE, !.current_value = SetMin(larger)]

\* bool move(const value_type &x): the value returned and the iterator left
move(rs, iter, x) ==
    LET map_iter == LowerBound(rs, highBytes(x))
    IN  IF map_iter # MapEnd(rs)
        THEN LET i1 == Roaring_initIterator(rs, KeyAt(rs, map_iter))
                 i2 == Roaring_moveIteratorEqualOrLarger(rs, i1, lowBytes(x))
             IN  IF KeyAt(rs, map_iter) = highBytes(x)
                 THEN IF i2.has_value
                      THEN [ret |-> TRUE, iter |-> [map_iter |-> map_iter, i |-> i2]]
                      ELSE IF map_iter + 1 = MapEnd(rs)
                      THEN [ret |-> FALSE,
                            iter |-> [map_iter |-> map_iter + 1, i |-> i2]]
                      ELSE [ret |-> TRUE,
                            iter |-> [map_iter |-> map_iter + 1,
                                      i |-> Roaring_initIterator(
                                                rs, KeyAt(rs, map_iter + 1))]]
                 ELSE [ret |-> TRUE, iter |-> [map_iter |-> map_iter, i |-> i1]]
        ELSE [ret |-> FALSE, iter |-> [map_iter |-> map_iter, i |-> iter.i]]

\* **this where this may stand at map_end: map_iter->first is then a read
\* through the end iterator of the std::map, whose outcome is undefined and
\* stands for any value
derefAny(rs, iter, undefined) ==
    IF iter.map_iter = MapEnd(rs) THEN undefined ELSE deref(rs, iter)

\* bool operator==(const Roaring64MapSetBitForwardIterator &o) const: the
\* value returned, and whether an iterator at map_end was dereferenced
iteratorEquals(rs, this, o, undefined) ==
    IF this.map_iter = MapEnd(rs) /\ o.map_iter = MapEnd(rs)
    THEN [ret |-> TRUE, derefEnd |-> FALSE]
    ELSE IF o.map_iter = MapEnd(rs) THEN [ret |-> FALSE, derefEnd |-> FALSE]
    ELSE [ret |-> derefAny(rs, this, undefined) = deref(rs, o),
          derefEnd |-> this.map_iter = MapEnd(rs)]

\* bool operator!=(const Roaring64MapSetBitForwardIterator &o) const
iteratorNotEquals(rs, this, o, undefined) ==
    IF this.map_iter = MapEnd(rs) /\ o.map_iter = MapEnd(rs)
    THEN [ret |-> FALSE, derefEnd |-> FALSE]
    ELSE IF o.map_iter = MapEnd(rs) THEN [ret |-> TRUE, derefEnd |-> FALSE]
    ELSE [ret |-> derefAny(rs, this, undefined) # deref(rs, o),
          derefEnd |-> this.map_iter = MapEnd(rs)]

\* ---------------------------- Roaring64MapSetBitBiDirectionalIterator
\* roaring_init_iterator_last(&map_iter->second.roaring, &i): i stands on
\* the largest value of that inner bitmap
Roaring_initIteratorLast(rs, key) ==
    IF rs[key].bits = {}
    THEN [parent |-> key, has_value |-> FALSE, current_value |-> 0]
    ELSE [parent |-> key, has_value |-> TRUE, current_value |-> SetMax(rs[key].bits)]

\* roaring_previous_uint32_iterator(&i): the value before that of i; an
\* iterator on an empty inner bitmap stays without a value
Roaring_previousIterator(rs, i) ==
    LET smaller == {x \in rs[i.parent].bits : x < i.current_value}
    IN  IF ~i.has_value \/ smaller = {}
        THEN [i EXCEPT !.has_value = FALSE, !.current_value = 0]
        ELSE [i EXCEPT !.current_value = SetMax(smaller)]

\* while (!i.has_value) { if (map_iter == map_begin) return;
\*                        map_iter--; roaring_init_iterator_last(...); }
RECURSIVE retreatOuter(_, _, _)
retreatOuter(rs, map_iter, i) ==
    IF i.has_value THEN [map_iter |-> map_iter, i |-> i]
    ELSE IF map_iter = MapBegin(rs) THEN [map_iter |-> map_iter, i |-> i]
    ELSE retreatOuter(rs, map_iter - 1,
                      Roaring_initIteratorLast(rs, KeyAt(rs, map_iter - 1)))

\* Roaring64MapSetBitBiDirectionalIterator &operator--(): the iterator left
predecrement(rs, iter) ==
    IF iter.map_iter = MapEnd(rs)
    THEN LET i1 == Roaring_initIteratorLast(rs, KeyAt(rs, iter.map_iter - 1))
         IN  IF i1.has_value THEN [map_iter |-> iter.map_iter - 1, i |-> i1]
             ELSE retreatOuter(rs, iter.map_iter - 1,
                               Roaring_previousIterator(rs, i1))
    ELSE retreatOuter(rs, iter.map_iter, Roaring_previousIterator(rs, iter.i))

\* Roaring64MapSetBitBiDirectionalIterator operator--(int): the iterator
\* left (the one returned is a copy of the iterator as it was)
postdecrement(rs, iter) ==
    IF iter.map_iter = MapEnd(rs)
    THEN [map_iter |-> iter.map_iter - 1,
          i |-> Roaring_initIteratorLast(rs, KeyAt(rs, iter.map_iter - 1))]
    ELSE retreatOuter(rs, iter.map_iter, Roaring_previousIterator(rs, iter.i))

\* ----------------------------------- Roaring64Map: copy-on-write, swap
RECURSIVE setCopyOnWriteLoop(_, _, _)
\* std::for_each(roarings.begin(), roarings.end(), ...) from position iter on
setCopyOnWriteLoop(rs, iter, val) ==
    IF iter = MapEnd(rs) THEN rs
    ELSE setCopyOnWriteLoop(
             [rs EXCEPT ![KeyAt(rs, iter)] = Roaring_setCopyOnWrite(@, val)],
             iter + 1, val)

\* void setCopyOnWrite(bool val)
setCopyOnWrite(m, val) ==
    IF m.copyOnWrite = val THEN m
    ELSE [copyOnWrite |-> val,
          roarings |-> setCopyOnWriteLoop(m.roarings, MapBegin(m.roarings), val)]

\* void swap(Roaring64Map &r) { roarings.swap(r.roarings); }
swap(m, r) ==
    [this |-> [m EXCEPT !.roarings = r.roarings],
     r |-> [r EXCEPT !.roarings = m.roarings]]

Init ==
    /\ r64 = NewRoaring64Map
    /\ other = NewRoaring64Map
    /\ last = Rec("init", None, None)
    /\ iterator = NoIterator
    /\ bitsets = NoBitsets

Add32(x) ==
    /\ r64' = add32(r64, x)
    /\ last' = Rec("add32", None, None)
    /\ UNCHANGED <<other, iterator, bitsets>>

Add64(x) ==
    /\ r64' = add64(r64, x)
    /\ last' = Rec("add64", None, None)
    /\ UNCHANGED <<other, iterator, bitsets>>

Remove32(x) ==
    /\ r64' = remove32(r64, x)
    /\ last' = Rec("remove32", KeyTag(r64, 0), None)
    /\ UNCHANGED <<other, iterator, bitsets>>

Remove64(x) ==
    /\ r64' = remove64(r64, x)
    /\ last' = Rec("remove64", KeyTag(r64, highBytes(x)), None)
    /\ UNCHANGED <<other, iterator, bitsets>>

RemoveChecked32(x) ==
    /\ r64' = removeChecked32(r64, x).map
    /\ last' = Rec("removeChecked32", KeyTag(r64, 0), removeChecked32(r64, x).ret)
    /\ UNCHANGED <<other, iterator, bitsets>>

RemoveChecked64(x) ==
    /\ r64' = removeChecked64(r64, x).map
    /\ last' = Rec("removeChecked64", KeyTag(r64, highBytes(x)),
                   removeChecked64(r64, x).ret)
    /\ UNCHANGED <<other, iterator, bitsets>>

AddRangeClosed32(min, max) ==
    /\ r64' = addRangeClosed32(r64, min, max)
    /\ last' = Rec("addRangeClosed32", RangeTag(min, max, maxUint32), None)
    /\ UNCHANGED <<other, iterator, bitsets>>

AddRangeClosed64(min, max) ==
    /\ r64' = addRangeClosed64(r64, min, max)
    /\ last' = Rec("addRangeClosed64", RangeTag(min, max, maxUint64), None)
    /\ UNCHANGED <<other, iterator, bitsets>>

RemoveRangeClosed32(min, max) ==
    /\ r64' = removeRangeClosed32(r64, min, max)
    /\ last' = Rec("removeRangeClosed32", RangeTag(min, max, maxUint32), None)
    /\ UNCHANGED <<other, iterator, bitsets>>

RemoveRangeClosed64(min, max) ==
    /\ r64' = removeRangeClosed64(r64, min, max)
    /\ last' = Rec("removeRangeClosed64", RangeTag(min, max, maxUint64), None)
    /\ UNCHANGED <<other, iterator, bitsets>>

FlipClosed(min, max) ==
    /\ r64' = flipClosed(r64, min, max)
    /\ last' = Rec("flipClosed", RangeTag(min, max, maxUint64), None)
    /\ UNCHANGED <<other, iterator, bitsets>>

\* the calls that read the bitmap and leave it alone
Maximum ==
    /\ last' = Rec("maximum", None, maximum(r64))
    /\ UNCHANGED <<r64, other, iterator, bitsets>>

MaximumLegacyImpl ==
    /\ last' = Rec("maximum_legacy_impl", None, maximum_legacy_impl(r64))
    /\ UNCHANGED <<r64, other, iterator, bitsets>>

Minimum ==
    /\ last' = Rec("minimum", None, minimum(r64))
    /\ UNCHANGED <<r64, other, iterator, bitsets>>

CardinalityCall ==
    /\ last' = Rec("cardinality", None, cardinality(r64))
    /\ UNCHANGED <<r64, other, iterator, bitsets>>

CardinalityNothrow ==
    /\ last' = Rec("cardinality_nothrow", None, cardinality_nothrow(r64))
    /\ UNCHANGED <<r64, other, iterator, bitsets>>

IsFull ==
    /\ last' = Rec("isFull", None, isFull(r64))
    /\ UNCHANGED <<r64, other, iterator, bitsets>>

Contains(x) ==
    /\ last' = Rec("contains", x, contains64(r64, x))
    /\ UNCHANGED <<r64, other, iterator, bitsets>>

Rank(x) ==
    /\ last' = Rec("rank", x, rank(r64, x))
    /\ UNCHANGED <<r64, other, iterator, bitsets>>

Select(rnk) ==
    /\ last' = Rec("select", rnk, select(r64, rnk))
    /\ UNCHANGED <<r64, other, iterator, bitsets>>

\* the case of a call on the bitmap itself: whether it held an element
SelfTag(m) == IF Elements(m) = {} THEN "empty" ELSE "nonempty"

\* r64 &= r64
SelfAndAssign ==
    /\ r64' = and_assign(r64, r64, TRUE)
    /\ last' = Rec("operator&=", SelfTag(r64), None)
    /\ UNCHANGED <<other, iterator, bitsets>>

\* r64 -= r64
SelfMinusAssign ==
    /\ r64' = minus_assign(r64, r64, TRUE)
    /\ last' = Rec("operator-=", SelfTag(r64), None)
    /\ UNCHANGED <<other, iterator, bitsets>>

\* r64 |= r64
SelfOrAssign ==
    /\ r64' = or_assign(r64, r64, TRUE)
    /\ last' = Rec("operator|=", SelfTag(r64), None)
    /\ UNCHANGED <<other, iterator, bitsets>>

\* r64 ^= r64
SelfXorAssign ==
    /\ r64' = xor_assign(r64, r64, TRUE)
    /\ last' = Rec("operator^=", SelfTag(r64), None)
    /\ UNCHANGED <<other, iterator, bitsets>>

\* r64.runOptimize(): the elements and the outer map stay as they are
RunOptimize ==
    /\ last' = Rec("runOptimize", None, runOptimize(r64))
    /\ UNCHANGED <<r64, other, iterator, bitsets>>

Next ==
    \/ \E x \in Lows : Add32(x)
    \/ \E x \in Values : Add64(x)
    \/ \E x \in Lows : Remove32(x)
    \/ \E x \in Values : Remove64(x)
    \/ \E x \in Lows : RemoveChecked32(x)
    \/ \E x \in Values : RemoveChecked64(x)
    \/ \E min, max \in Lows : AddRangeClosed32(min, max)
    \/ \E min, max \in Values : AddRangeClosed64(min, max)
    \/ \E min, max \in Lows : RemoveRangeClosed32(min, max)
    \/ \E min, max \in Values : RemoveRangeClosed64(min, max)
    \/ \E min, max \in Values : FlipClosed(min, max)
    \/ Maximum
    \/ MaximumLegacyImpl
    \/ Minimum
    \/ CardinalityCall
    \/ CardinalityNothrow
    \/ IsFull
    \/ \E x \in Values : Contains(x)
    \/ \E x \in Values : Rank(x)
    \/ \E x \in Values : Select(x)
    \/ SelfAndAssign
    \/ SelfMinusAssign
    \/ SelfOrAssign
    \/ SelfXorAssign
    \/ RunOptimize

Spec == Init /\ [][Next]_vars

\* ------------------------------------------- a program with two bitmaps
\* The calls that add values, the set operators and fastunion, applied to
\* r64 next to a second bitmap other, which is constructed from an array
\* of values and which the operators and fastunion read.  These steps do
\* not record the call in last.
ArraysOfValues == UNION {[1 .. n -> Values] : n \in 0 .. MaxMany}

\* other = Roaring64Map(n, data)
ConstructOther(data) ==
    /\ other' = Roaring64MapOf(data)
    /\ UNCHANGED <<r64, last, iterator, bitsets>>

GrowAdd32(x) ==
    /\ r64' = add32(r64, x)
    /\ UNCHANGED <<other, last, iterator, bitsets>>

GrowAdd64(x) ==
    /\ r64' = add64(r64, x)
    /\ UNCHANGED <<other, last, iterator, bitsets>>

GrowAddRangeClosed32(min, max) ==
    /\ min <= max
    /\ r64' = addRangeClosed32(r64, min, max)
    /\ UNCHANGED <<other, last, iterator, bitsets>>

GrowAddRangeClosed64(min, max) ==
    /\ min <= max
    /\ r64' = addRangeClosed64(r64, min, max)
    /\ UNCHANGED <<other, last, iterator, bitsets>>

\* same: the operand is the bitmap itself (this == &other)
AndAssign(same) ==
    /\ r64' = and_assign(r64, IF same THEN r64 ELSE other, same)
    /\ UNCHANGED <<other, last, iterator, bitsets>>

MinusAssign(same) ==
    /\ r64' = minus_assign(r64, IF same THEN r64 ELSE other, same)
    /\ UNCHANGED <<other, last, iterator, bitsets>>

OrAssign(same) ==
    /\ r64' = or_assign(r64, IF same THEN r64 ELSE other, same)
    /\ UNCHANGED <<other, last, iterator, bitsets>>

XorAssign(same) ==
    /\ r64' = xor_assign(r64, IF same THEN r64 ELSE other, same)
    /\ UNCHANGED <<other, last, iterator, bitsets>>

\* r64 = Roaring64Map::fastunion(n, inputs), each input being r64 or other
FastUnion(n, pick) ==
    /\ r64' = fastunion(n, [i \in 1 .. n |-> IF pick[i] THEN r64 ELSE other])
    /\ UNCHANGED <<other, last, iterator, bitsets>>

GrowNext ==
    \/ \E x \in Lows : GrowAdd32(x)
    \/ \E x \in Values : GrowAdd64(x)
    \/ \E min, max \in Lows : GrowAddRangeClosed32(min, max)
    \/ \E min, max \in Values : GrowAddRangeClosed64(min, max)
    \/ \E same \in BOOLEAN : AndAssign(same)
    \/ \E same \in BOOLEAN : MinusAssign(same)
    \/ \E same \in BOOLEAN : OrAssign(same)
    \/ \E same \in BOOLEAN : XorAssign(same)
    \/ \E n \in 0 .. MaxInputs : \E pick \in [1 .. n -> BOOLEAN] : FastUnion(n, pick)
    \/ \E data \in ArraysOfValues : ConstructOther(data)

\* remove(x) between the growing operations
GrowRemove64(x) ==
    /\ r64' = remove64(r64, x)
    /\ UNCHANGED <<other, last, iterator, bitsets>>

GrowRemoveNext ==
    \/ GrowNext
    \/ \E x \in Values : GrowRemove64(x)

SpecGrow == Init /\ [][GrowRemoveNext]_vars

\* The bitmaps that add and remove can build: any set of outer keys, any
\* inner bitmaps, empty ones included.
AllBitmaps ==
    LET Inner == {[bits |-> b, cow |-> FALSE] : b \in SUBSET Lows}
    IN  UNION {{[roarings |-> f, copyOnWrite |-> FALSE] : f \in [D -> Inner]} :
                  D \in SUBSET Keys}

\* ------------------------------------------------- two bitmaps compared
\* those of at most MaxMany values
PairInputs == {m \in AllBitmaps : Cardinality(Elements(m)) <= MaxMany}

PairInit ==
    /\ r64 \in PairInputs
    /\ other \in PairInputs
    /\ last = Rec("init", None, None)
    /\ iterator = NoIterator
    /\ bitsets = NoBitsets

\* Each behaviour draws the two bitmaps and makes one call on them.
\* r64 == other
Equals ==
    /\ last.op = "init"
    /\ last' = Rec("operator==", None, equals(r64, other))
    /\ UNCHANGED <<r64, other, iterator, bitsets>>

\* r64.isSubset(other)
IsSubset ==
    /\ last.op = "init"
    /\ last' = Rec("isSubset", None, isSubset(r64, other, FALSE))
    /\ UNCHANGED <<r64, other, iterator, bitsets>>

\* r64.isStrictSubset(other)
IsStrictSubset ==
    /\ last.op = "init"
    /\ last' = Rec("isStrictSubset", None, isStrictSubset(r64, other))
    /\ UNCHANGED <<r64, other, iterator, bitsets>>

\* r64 & other: a copy of r64 on which operator&= is applied
BinaryAnd ==
    /\ last.op = "init"
    /\ last' = Rec("operator&", None, and_assign(r64, other, FALSE))
    /\ UNCHANGED <<r64, other, iterator, bitsets>>

\* r64 - other
BinaryMinus ==
    /\ last.op = "init"
    /\ last' = Rec("operator-", None, minus_assign(r64, other, FALSE))
    /\ UNCHANGED <<r64, other, iterator, bitsets>>

\* r64 | other
BinaryOr ==
    /\ last.op = "init"
    /\ last' = Rec("operator|", None, or_assign(r64, other, FALSE))
    /\ UNCHANGED <<r64, other, iterator, bitsets>>

\* r64 ^ other
BinaryXor ==
    /\ last.op = "init"
    /\ last' = Rec("operator^", None, xor_assign(r64, other, FALSE))
    /\ UNCHANGED <<r64, other, iterator, bitsets>>

\* the inputs of a fastunion call: pick[i] chooses r64 or other
FastUnionInputs(n, pick) == [i \in 1 .. n |-> IF pick[i] THEN r64 ELSE other]

\* Roaring64Map::fastunion(n, inputs); the tag tells which of the two
\* bitmaps were among the inputs
FastUnionCall(n, pick) ==
    /\ last.op = "init"
    /\ last' = Rec("fastunion", {pick[i] : i \in 1 .. n},
                   fastunion(n, FastUnionInputs(n, pick)))
    /\ UNCHANGED <<r64, other, iterator, bitsets>>

PairNext ==
    \/ Equals
    \/ IsSubset
    \/ IsStrictSubset

SpecPair == PairInit /\ [][PairNext]_vars

\* ------------------------------------------------ a bitmap serialized
SerialInit ==
    /\ r64 \in PairInputs
    /\ other = NewRoaring64Map
    /\ last = Rec("init", None, None)
    /\ iterator = NoIterator
    /\ bitsets = NoBitsets

\* n = r64.write(buf, portable); Roaring64Map::read(buf, portable)
WriteRead(portable) ==
    /\ last.op = "init"
    /\ LET buf == write(r64, portable)
       IN  last' = Rec("write", portable,
                       [written |-> Len(buf), result |-> read(buf, portable)])
    /\ UNCHANGED <<r64, other, iterator, bitsets>>

\* r64.write(buf, true); Roaring64Map::readSafe(buf, maxbytes) with
\* maxbytes up to the number of bytes written
ReadSafe(maxbytes) ==
    /\ last.op = "init"
    /\ maxbytes <= Len(write(r64, TRUE))
    /\ last' = Rec("readSafe", maxbytes, readSafe(write(r64, TRUE), maxbytes))
    /\ UNCHANGED <<r64, other, iterator, bitsets>>

\* the longest stream of a bitmap of PairInputs
MaxStream ==
    sizeofUint64 + (MaxHigh + 1) * 2 * sizeofUint32 + MaxMany * sizeofUint32

SerialNext ==
    \/ \E portable \in BOOLEAN : WriteRead(portable)
    \/ \E maxbytes \in 0 .. MaxStream : ReadSafe(maxbytes)

SpecSerial == SerialInit /\ [][SerialNext]_vars

\* ------------------------------------------------- a bitmap traversed
\* for (auto it = r64.begin(); it != r64.end(); ++it) { ... *it ... }
\* on a bitmap that does not change meanwhile; last.ret is the sequence of
\* the values read so far.
IterInit ==
    /\ r64 \in AllBitmaps
    /\ other = NewRoaring64Map
    /\ last = Rec("init", None, <<>>)
    /\ iterator = NoIterator
    /\ bitsets = NoBitsets

Begin ==
    /\ iterator = NoIterator
    /\ iterator' = begin(r64)
    /\ last' = Rec("begin", None, <<>>)
    /\ UNCHANGED <<r64, other, bitsets>>

\* one round of the loop: it != end(), *it, ++it
Increment ==
    /\ iterator # NoIterator
    /\ notEqualsEnd(r64.roarings, iterator)
    /\ last' = Rec("operator++", None, Append(last.ret, deref(r64.roarings, iterator)))
    /\ iterator' = increment(r64.roarings, iterator)
    /\ UNCHANGED <<r64, other, bitsets>>

IterNext ==
    \/ Begin
    \/ Increment

\* the loop keeps running until it != end() fails
SpecIter == IterInit /\ [][IterNext]_vars /\ WF_vars(IterNext)

AlgebraNext ==
    \/ BinaryAnd
    \/ BinaryMinus
    \/ BinaryOr
    \/ BinaryXor

SpecAlgebra == PairInit /\ [][AlgebraNext]_vars

UnionNext ==
    \E n \in 0 .. MaxInputs : \E pick \in [1 .. n -> BOOLEAN] : FastUnionCall(n, pick)

SpecUnion == PairInit /\ [][UnionNext]_vars

\* ------------------------------------------- one update of a bitmap
\* Each behaviour draws a bitmap, keeps a copy of it in other
\* (Roaring64Map other(r64)) and makes one updating call on r64.
UpdateInit ==
    /\ r64 \in AllBitmaps
    /\ other = r64
    /\ last = Rec("init", None, None)
    /\ iterator = NoIterator
    /\ bitsets = NoBitsets

\* r64.shrinkToFit()
ShrinkToFit ==
    /\ last.op = "init"
    /\ r64' = shrinkToFit(r64).bitmap
    /\ last' = Rec("shrinkToFit", None, shrinkToFit(r64).savedBytes)
    /\ UNCHANGED <<other, iterator, bitsets>>

\* r64.removeRangeClosed(min, max), the 64-bit overload
RemoveRangeClosedCall(min, max) ==
    /\ last.op = "init"
    /\ r64' = removeRangeClosed64(r64, min, max)
    /\ last' = Rec("removeRangeClosed64", <<min, max>>, None)
    /\ UNCHANGED <<other, iterator, bitsets>>

UpdateNext ==
    \/ ShrinkToFit
    \/ \E min, max \in Values : RemoveRangeClosedCall(min, max)

SpecUpdate == UpdateInit /\ [][UpdateNext]_vars

\* ------------------------------------- a program on bitset containers
\* Two containers are created; then at most MaxCalls calls are made, each
\* of which creates a container anew, sets or unsets a bit, or runs one of
\* the four operations, in either variant and either build, on any inputs
\* and any output.  last.tag counts the calls, and last.ret is 0 after a
\* call that returns nothing.
Containers == 1 .. 2

Builds == BOOLEAN

BitsetInit ==
    /\ r64 = NewRoaring64Map
    /\ other = NewRoaring64Map
    /\ last = Rec("init", 0, 0)
    /\ iterator = NoIterator
    /\ bitsets = [c \in Containers |-> bitset_container_create]

\* bitset_container_free(c); c = bitset_container_create()
BitsetCreate(c) ==
    /\ last.tag < MaxCalls
    /\ bitsets' = [bitsets EXCEPT ![c] = bitset_container_create]
    /\ last' = Rec("bitset_container_create", last.tag + 1, 0)
    /\ UNCHANGED <<r64, other, iterator>>

\* bitset_container_set(c, i)
BitsetSet(c, i) ==
    /\ last.tag < MaxCalls
    /\ bitsets' = [bitsets EXCEPT ![c] = bitset_container_set(@, i)]
    /\ last' = Rec("bitset_container_set", last.tag + 1, 0)
    /\ UNCHANGED <<r64, other, iterator>>

\* bitset_container_unset(c, i)
BitsetUnset(c, i) ==
    /\ last.tag < MaxCalls
    /\ bitsets' = [bitsets EXCEPT ![c] = bitset_container_unset(@, i)]
    /\ last' = Rec("bitset_container_unset", last.tag + 1, 0)
    /\ UNCHANGED <<r64, other, iterator>>

\* bitset_container_<opname>(bitset1, bitset2, bitsetout) or its _nocard
\* variant, in the build with or without USEAVX
BitsetOp(useavx, nocard, opname, bitset1, bitset2, bitsetout) ==
    LET done == bitset_container_call(useavx, nocard, bitsets, opname,
                                      bitset1, bitset2, bitsetout)
    IN  /\ last.tag < MaxCalls
        /\ bitsets' = done.mem
        /\ last' = Rec(IF nocard THEN opname \o "_nocard" ELSE opname,
                       last.tag + 1, done.ret)
        /\ UNCHANGED <<r64, other, iterator>>

BitsetNext ==
    \/ \E c \in Containers : BitsetCreate(c)
    \/ \E c \in Containers, i \in BitIndexes : BitsetSet(c, i)
    \/ \E c \in Containers, i \in BitIndexes : BitsetUnset(c, i)
    \/ \E useavx \in Builds, nocard \in BOOLEAN, opname \in OpNames,
          bitset1, bitset2, bitsetout \in Containers :
           BitsetOp(useavx, nocard, opname, bitset1, bitset2, bitsetout)

SpecBitset == BitsetInit /\ [][BitsetNext]_vars

\* ----------------------------------- one operation on two bitsets
\* Each behaviour draws the containers at places 1 and 2, which create, set
\* and unset can build, has a created container at place 3, and makes one
\* call of one of the four operations; last.tag records the call.
BitsetInputs ==
    {b \in [array : [WordIndexes -> SUBSET AllBits], cardinality : BitIndexes] :
        b.cardinality = BitCount(b) /\ b.cardinality <= MaxMany}

\* no call was made yet
NoCall == [opname |-> None, nocard |-> FALSE,
           bitset1 |-> 0, bitset2 |-> 0, bitsetout |-> 0]

BitsetOpInit ==
    /\ r64 = NewRoaring64Map
    /\ other = NewRoaring64Map
    /\ last = Rec("init", NoCall, 0)
    /\ iterator = NoIterator
    /\ \E b1, b2 \in BitsetInputs :
           bitsets = <<b1, b2, bitset_container_create>>

BitsetOpCall(useavx, nocard, opname, bitset1, bitset2, bitsetout) ==
    LET done == bitset_container_call(useavx, nocard, bitsets, opname,
                                      bitset1, bitset2, bitsetout)
    IN  /\ last.op = "init"
        /\ bitsets' = done.mem
        /\ last' = Rec("bitset_container_fn",
                       [opname |-> opname, nocard |-> nocard,
                        bitset1 |-> bitset1, bitset2 |-> bitset2,
                        bitsetout |-> bitsetout],
                       done.ret)
        /\ UNCHANGED <<r64, other, iterator>>

BitsetOpNext ==
    \E useavx \in Builds, nocard \in BOOLEAN, opname \in OpNames,
       bitset1, bitset2 \in 1 .. 2, bitsetout \in 1 .. 3 :
        BitsetOpCall(useavx, nocard, opname, bitset1, bitset2, bitsetout)

SpecBitsetOp == BitsetOpInit /\ [][BitsetOpNext]_vars

\* --------------------------------------------------- a bitmap frozen
\* r64.writeFrozen(buf) into a buffer at the address buf, then
\* r64.getFrozenSizeInBytes() and Roaring64Map::frozenView(buf)
BufferAddresses == {0, 8, 32}

WriteFrozen(buf) ==
    /\ last.op = "init"
    /\ LET done == writeFrozen(r64, buf)
       IN  last' = Rec("writeFrozen", buf,
                       [written |-> Len(done.bytes), bodies |-> done.bodies,
                        size |-> getFrozenSizeInBytes(r64),
                        view |-> frozenView(done.bytes, buf)])
    /\ UNCHANGED <<r64, other, iterator, bitsets>>

FrozenNext == \E buf \in BufferAddresses : WriteFrozen(buf)

SpecFrozen == SerialInit /\ [][FrozenNext]_vars

\* ------------------------------------------ one call on an iterator
\* Each behaviour draws a bitmap and makes one call on iterators over it.
\* the iterator that n rounds of ++it leave, from iter on; it stays at end()
RECURSIVE AdvanceBy(_, _, _)
AdvanceBy(rs, iter, n) ==
    IF n = 0 \/ ~notEqualsEnd(rs, iter) THEN iter
    ELSE AdvanceBy(rs, increment(rs, iter), n - 1)

Rounds == 0 .. Cardinality(Values)

\* auto it = r64.begin(); bool found = it.move(x)
Move(x) ==
    /\ last.op = "init"
    /\ LET moved == move(r64.roarings, begin(r64), x)
       IN  /\ iterator' = moved.iter
           /\ last' = Rec("move", x, moved.ret)
    /\ UNCHANGED <<r64, other, bitsets>>

\* a == b and a != b, for a and b that n and m rounds of ++ leave from
\* begin(); iterator is a and last.tag is b
IteratorCompare(n, m, undefined) ==
    /\ last.op = "init"
    /\ LET rs == r64.roarings
           a == AdvanceBy(rs, begin(r64), n)
           b == AdvanceBy(rs, begin(r64), m)
       IN  /\ iterator' = a
           /\ last' = Rec("operator==", b,
                          [eq |-> iteratorEquals(rs, a, b, undefined),
                           ne |-> iteratorNotEquals(rs, a, b, undefined)])
    /\ UNCHANGED <<r64, other, bitsets>>

\* --it and it-- on two bidirectional iterators that stand where n rounds of
\* ++ leave from begin(), over a bitmap with an element; iterator is that
\* position
Decrement(n) ==
    /\ last.op = "init"
    /\ Elements(r64) # {}
    /\ LET rs == r64.roarings
           start == AdvanceBy(rs, begin(r64), n)
       IN  /\ iterator' = start
           /\ last' = Rec("operator--", None,
                          [pre |-> predecrement(rs, start),
                           post |-> postdecrement(rs, start)])
    /\ UNCHANGED <<r64, other, bitsets>>

IterOpsNext ==
    \/ \E x \in Values : Move(x)
    \/ \E n, m \in Rounds, undefined \in Values : IteratorCompare(n, m, undefined)
    \/ \E n \in Rounds : Decrement(n)

SpecIterOps == IterInit /\ [][IterOpsNext]_vars

\* ------------------------------------------- fastunion, round by round
\* Roaring64Map::fastunion(n, inputs) on inputs that are r64 or other, one
\* round of the outer while loop at a time.  last.tag is the choice of the
\* inputs; last.ret holds iters, pq and result.roarings as they are between
\* two rounds, and rounds, the target_key of each round so far with iters
\* as they were when the round began.
UnionRoundsInputs == {m \in PairInputs : Cardinality(Elements(m)) <= 1}

NoRun == [iters |-> <<>>, pq |-> <<>>, result |-> EmptyMap, rounds |-> <<>>]

UnionRoundsInit ==
    /\ r64 \in UnionRoundsInputs
    /\ other \in UnionRoundsInputs
    /\ last = Rec("init", <<>>, NoRun)
    /\ iterator = NoIterator
    /\ bitsets = NoBitsets

\* the statements of fastunion before the outer while loop
FastUnionStart(n, pick) ==
    /\ last.op = "init"
    /\ LET inputs == FastUnionInputs(n, pick)
           iters == [i \in 1 .. n |-> MapBegin(inputs[i].roarings)]
       IN  last' = Rec("fastunion", pick,
                       [iters |-> iters,
                        pq |-> pqPopulate(n, inputs, iters, <<>>, 1),
                        result |-> EmptyMap,
                        rounds |-> <<>>])
    /\ UNCHANGED <<r64, other, iterator, bitsets>>

\* one round of while (!pq.empty()) { ... }
FastUnionRound ==
    /\ last.op = "fastunion"
    /\ last.ret.pq # <<>>
    /\ LET inputs == FastUnionInputs(Len(last.tag), last.tag)
           st == last.ret
           top == pqTop(inputs, st.iters, st.pq)
           target_key == KeyAt(inputs[top].roarings, st.iters[top])
           g == fastunionGather(inputs, st.iters, st.pq, target_key, <<>>)
       IN  last' = Rec("fastunion", last.tag,
                       [iters |-> g.iters,
                        pq |-> g.pq,
                        result |-> MapPut(st.result, target_key,
                                          Roaring_or_many(g.bitmaps)),
                        rounds |-> Append(st.rounds,
                                          [target_key |-> target_key,
                                           iters |-> st.iters])])
    /\ UNCHANGED <<r64, other, iterator, bitsets>>

UnionRoundsNext ==
    \/ \E n \in 0 .. (MaxInputs + 1) : \E pick \in [1 .. n -> BOOLEAN] :
           FastUnionStart(n, pick)
    \/ FastUnionRound

SpecUnionRounds == UnionRoundsInit /\ [][UnionRoundsNext]_vars

\* ------------------------------------- a program that sets copy-on-write
\* Two bitmaps r64 and other; the calls go to r64, with other as the second
\* operand, and swap and setCopyOnWrite reach other as well.  last.tag
\* counts the calls made.
CowInit ==
    /\ r64 = NewRoaring64Map
    /\ other = NewRoaring64Map
    /\ last = Rec("init", 0, None)
    /\ iterator = NoIterator
    /\ bitsets = NoBitsets

CowCall(op, this, r) ==
    /\ last.tag < MaxCalls
    /\ r64' = this
    /\ other' = r
    /\ last' = Rec(op, last.tag + 1, None)
    /\ UNCHANGED <<iterator, bitsets>>

SetCopyOnWrite(val) == CowCall("setCopyOnWrite", setCopyOnWrite(r64, val), other)

OtherSetCopyOnWrite(val) ==
    CowCall("setCopyOnWrite", r64, setCopyOnWrite(other, val))

CowAdd32(x) == CowCall("add", add32(r64, x), other)

CowAdd64(x) == CowCall("add", add64(r64, x), other)

CowRemove32(x) == CowCall("remove", remove32(r64, x), other)

CowRemove64(x) == CowCall("remove", remove64(r64, x), other)

CowAddRangeClosed32(min, max) ==
    CowCall("addRangeClosed", addRangeClosed32(r64, min, max), other)

CowAddRangeClosed64(min, max) ==
    CowCall("addRangeClosed", addRangeClosed64(r64, min, max), other)

CowRemoveRangeClosed32(min, max) ==
    CowCall("removeRangeClosed", removeRangeClosed32(r64, min, max), other)

CowRemoveRangeClosed64(min, max) ==
    CowCall("removeRangeClosed", removeRangeClosed64(r64, min, max), other)

CowFlipClosed(min, max) == CowCall("flipClosed", flipClosed(r64, min, max), other)

CowAndAssign == CowCall("operator&=", and_assign(r64, other, FALSE), other)

CowMinusAssign == CowCall("operator-=", minus_assign(r64, other, FALSE), other)

CowOrAssign == CowCall("operator|=", or_assign(r64, other, FALSE), other)

CowXorAssign == CowCall("operator^=", xor_assign(r64, other, FALSE), other)

\* r64.swap(other)
CowSwap == CowCall("swap", swap(r64, other).this, swap(r64, other).r)

\* r64 = Roaring64Map::fastunion(n, inputs), each input being r64 or other
CowFastUnion(n, pick) ==
    CowCall("fastunion", fastunion(n, FastUnionInputs(n, pick)), other)

\* r64.write(buf, portable); r64 = Roaring64Map::read(buf, portable)
CowRead(portable) == CowCall("read", read(write(r64, portable), portable), other)

CowNext ==
    \/ \E val \in BOOLEAN : SetCopyOnWrite(val)
    \/ \E val \in BOOLEAN : OtherSetCopyOnWrite(val)
    \/ \E x \in Lows : CowAdd32(x)
    \/ \E x \in Values : CowAdd64(x)
    \/ \E x \in Lows : CowRemove32(x)
    \/ \E x \in Values : CowRemove64(x)
    \/ \E min, max \in Lows : CowAddRangeClosed32(min, max)
    \/ \E min, max \in Values : CowAddRangeClosed64(min, max)
    \/ \E min, max \in Lows : CowRemoveRangeClosed32(min, max)
    \/ \E min, max \in Values : CowRemoveRangeClosed64(min, max)
    \/ \E min, max \in Values : CowFlipClosed(min, max)
    \/ CowAndAssign
    \/ CowMinusAssign
    \/ CowOrAssign
    \/ CowXorAssign
    \/ CowSwap
    \/ \E n \in 0 .. MaxInputs : \E pick \in [1 .. n -> BOOLEAN] :
           CowFastUnion(n, pick)
    \/ \E portable \in BOOLEAN : CowRead(portable)

SpecCow == CowInit /\ [][CowNext]_vars

\* ------------------------------------------------------------------ C1
\* C1 as stated: after any sequence of public operations from the empty
\* bitmap, every entry of the outer map holds a non-empty inner bitmap.
C1_NoEmptyEntries == EmptyKeys(r64) = {}

\* C1 amended: add, addRangeClosed with min <= max, operator|=, operator&=,
\* operator-=, operator^= and fastunion, applied to bitmaps whose outer
\* entries all hold non-empty inner bitmaps, return with every entry of the
\* outer map holding a non-empty inner bitmap; a step that leaves an empty
\* entry behind is a remove, never one of these operations.
C1_NoEmptyEntriesWhenGrowing ==
    [][(EmptyKeys(r64) = {} /\ EmptyKeys(other) = {})
           => (EmptyKeys(r64') = {} /\ EmptyKeys(other') = {}) \/ ~GrowNext]_vars

\* both bitmaps hold several entries, they share an outer key on which
\* their inner bitmaps differ, and other holds a key that r64 lacks
C1_Witness ==
    /\ EmptyKeys(r64) = {} /\ EmptyKeys(other) = {}
    /\ Cardinality(DOMAIN r64.roarings) >= 2
    /\ Cardinality(DOMAIN other.roarings) >= 2
    /\ \E k \in DOMAIN r64.roarings \cap DOMAIN other.roarings :
           r64.roarings[k].bits # other.roarings[k].bits
    /\ DOMAIN other.roarings \ DOMAIN r64.roarings # {}

\* ------------------------------------------------------------------ C2
\* C2: in every reachable state, with empty inner bitmaps in any position,
\* maximum() and maximum_legacy_impl() return the same value, the largest
\* element present, or 0 when the bitmap has no element.
C2_MaximumAgrees ==
    LET expected == MaxOrZero(Elements(r64))
    IN  /\ maximum(r64) = expected
        /\ maximum_legacy_impl(r64) = expected
        /\ last.op \in {"maximum", "maximum_legacy_impl"} => last.ret = expected

\* maximum_legacy_impl() was called on a bitmap whose last outer entries are
\* empty and whose largest element sits below them
C2_Witness ==
    /\ last.op = "maximum_legacy_impl"
    /\ Elements(r64) # {}
    /\ \E k \in EmptyKeys(r64) : k > highBytes(last.ret)
    /\ last.ret = maximum(r64)

\* ------------------------------------------------------------------ C3
\* C3 as stated: minimum() returns 0 when the bitmap has no element.
C3_MinimumZeroOnEmpty ==
    (last.op = "minimum" /\ Elements(r64) = {}) => last.ret = 0

\* C3 amended: minimum() returns the largest uint64_t when the bitmap has
\* no element, whether the outer map is empty or holds only empty bitmaps.
C3_MinimumMaxOnEmpty ==
    /\ Elements(r64) = {} => minimum(r64) = maxUint64
    /\ (last.op = "minimum" /\ Elements(r64) = {}) => last.ret = maxUint64

\* minimum() was called on an outer map that holds only empty bitmaps
C3_Witness ==
    /\ last.op = "minimum"
    /\ Elements(r64) = {}
    /\ Cardinality(DOMAIN r64.roarings) >= 2
    /\ last.ret = maxUint64

\* ------------------------------------------------------------------ C4
\* C4 as stated: for every v with v+1 in the domain, contains(v) is true
\* iff rank(v+1) > rank(v).
C4_ContainsIffRankGrows ==
    \A v \in Values : (v + 1) \in Values =>
        (contains64(r64, v) <=> rank(r64, v + 1) > rank(r64, v))

\* C4 amended: for every v with v+1 in the domain, contains(v+1) is true iff
\* rank(v+1) > rank(v); except that on the completely full bitmap
\* rank(2^64-1) wraps to 0, so there contains(2^64-1) holds with
\* rank(2^64-1) = 0.
C4_ContainsNextIffRankGrows ==
    \A v \in Values : (v + 1) \in Values =>
        IF Elements(r64) = Values /\ v + 1 = maxUint64
        THEN contains64(r64, v + 1) /\ rank(r64, v + 1) = 0
        ELSE contains64(r64, v + 1) <=> rank(r64, v + 1) > rank(r64, v)

\* rank(v+1) was called where v+1 is present in an outer entry above key 0
\* and v is absent
C4_Witness ==
    /\ last.op = "rank"
    /\ last.tag > LowCount
    /\ contains64(r64, last.tag)
    /\ ~contains64(r64, last.tag - 1)
    /\ last.ret > rank(r64, last.tag - 1)
    /\ rank(r64, last.tag - 1) > 0

\* ------------------------------------------------------------------ C5
\* C5 as stated: for every v in the bitmap, select(rank(v), &out) returns
\* true and sets out = v.
C5_SelectOfRank ==
    \A v \in Elements(r64) :
        LET s == select(r64, rank(r64, v))
        IN  s.ok /\ s.element = v

\* C5 amended: for every v in the bitmap, select(rank(v) - 1, &out), the
\* subtraction taken in uint64_t, returns true and sets out = v.
C5_SelectOfRankMinusOne ==
    \A v \in Elements(r64) :
        LET s == select(r64, (rank(r64, v) - 1) % Mod64)
        IN  s.ok /\ s.element = v

\* select(rank(v) - 1) was called for an element v that is neither the
\* first of the bitmap nor in the first outer entry
C5_Witness ==
    /\ last.op = "select"
    /\ last.ret.ok
    /\ last.ret.element \in Elements(r64)
    /\ last.tag = (rank(r64, last.ret.element) - 1) % Mod64
    /\ last.tag > 0
    /\ highBytes(last.ret.element) > SetMin(DOMAIN r64.roarings)

\* ------------------------------------------------------------------ C6
\* C6: in every reachable state rank(x) equals the number of elements of
\* the bitmap that are smaller than or equal to x.
C6_RankCountsElements ==
    \A x \in Values :
        rank(r64, x) = Cardinality({e \in Elements(r64) : e <= x})

\* ------------------------------------------------------------------ C7
\* C7: after addRangeClosed(0, 2^64-1) isFull() is true and
\* cardinality_nothrow() returns (0, true); and in every reachable state
\* isFull() is true iff every value of the domain is present, that is the
\* outer map has every key and every inner bitmap has every low value.
C7_FullAfterWholeRange ==
    /\ (last.op = "addRangeClosed64" /\ last.tag = "whole") =>
           /\ isFull(r64)
           /\ cardinality_nothrow(r64) = [first |-> 0, second |-> TRUE]
    /\ isFull(r64) <=> Elements(r64) = Values
    /\ isFull(r64) <=>
           /\ DOMAIN r64.roarings = Keys
           /\ \A k \in Keys : Cardinality(r64.roarings[k].bits) = LowCount
    /\ last.op = "isFull" => (last.ret <=> Elements(r64) = Values)

\* addRangeClosed(0, 2^64-1) has just returned
C7_Witness ==
    /\ last.op = "addRangeClosed64"
    /\ last.tag = "whole"
    /\ isFull(r64)
    /\ Elements(r64) = Values

\* ------------------------------------------------------------------ C8
\* C8: cardinality() fails exactly when the bitmap is completely full; in
\* every other state it returns the exact number of elements and
\* cardinality_nothrow() returns that count with the full flag false.
C8_CardinalityExact ==
    LET full == Elements(r64) = Values
        count == Cardinality(Elements(r64))
    IN  /\ cardinality(r64).throws <=> full
        /\ ~full => /\ cardinality(r64).value = count
                    /\ cardinality_nothrow(r64) =
                           [first |-> count, second |-> FALSE]
        /\ last.op = "cardinality" => (last.ret.throws <=> full)
        /\ (last.op = "cardinality" /\ ~full) => last.ret.value = count

\* cardinality() was called on a bitmap that has every outer key and lacks
\* a single value
C8_Witness ==
    /\ last.op = "cardinality"
    /\ ~last.ret.throws
    /\ last.ret.value = Mod64 - 1
    /\ DOMAIN r64.roarings = Keys

\* ------------------------------------------------------------------ C9
\* C9: a call of addRangeClosed, removeRangeClosed or flipClosed, in any
\* overload, with lo > hi leaves the element set and the set of outer-map
\* keys unchanged.
C9_InvertedRangeNoEffect ==
    [][(last'.op \in RangeOps /\ last'.tag = "inverted") =>
           /\ Elements(r64') = Elements(r64)
           /\ DOMAIN r64'.roarings = DOMAIN r64.roarings]_vars

\* ----------------------------------------------------------------- C10
\* C10: remove(x) and removeChecked(x), in both overloads, called with a
\* value whose outer key has no entry, leave the outer map alone, and
\* removeChecked returns false.
C10_RemoveAbsentKeyNoOp ==
    [][(last'.op \in RemoveOps /\ last'.tag = "absent") =>
           /\ r64'.roarings = r64.roarings
           /\ last'.op \in {"removeChecked32", "removeChecked64"} =>
                  last'.ret = FALSE]_vars

\* ----------------------------------------------------------------- C11
\* C11: for any two bitmaps, with empty inner bitmaps at any keys of either
\* outer map, operator== returns (it terminates) and returns true exactly
\* when both hold the same set of 64-bit elements.
C11_EqualsIffSameElements ==
    /\ equals(r64, other) = (Elements(r64) = Elements(other))
    /\ last.op = "operator==" => last.ret = (Elements(r64) = Elements(other))

\* operator== returned true for two non-empty bitmaps whose outer maps
\* differ: each holds an empty inner bitmap at a key the other lacks
C11_Witness ==
    /\ last.op = "operator=="
    /\ last.ret = TRUE
    /\ Elements(r64) # {}
    /\ EmptyKeys(r64) \ DOMAIN other.roarings # {}
    /\ EmptyKeys(other) \ DOMAIN r64.roarings # {}

\* ----------------------------------------------------------------- C12
\* C12: for any two bitmaps, with empty inner bitmaps on either side,
\* isSubset is true exactly when every element of this is in other, and
\* isStrictSubset exactly when moreover other has an element this lacks.
C12_SubsetIffContained ==
    LET A == Elements(r64)
        B == Elements(other)
    IN  /\ isSubset(r64, other, FALSE) = (A \subseteq B)
        /\ isStrictSubset(r64, other) = (A \subseteq B /\ A # B)
        /\ last.op = "isSubset" => last.ret = (A \subseteq B)
        /\ last.op = "isStrictSubset" => last.ret = (A \subseteq B /\ A # B)

\* isStrictSubset returned false for two equal non-empty bitmaps although
\* other holds an (empty) entry at a key this lacks
C12_Witness ==
    /\ last.op = "isStrictSubset"
    /\ last.ret = FALSE
    /\ Elements(r64) # {}
    /\ Elements(r64) = Elements(other)
    /\ EmptyKeys(other) \ DOMAIN r64.roarings # {}

\* ----------------------------------------------------------------- C13
\* C13: with distinct operands A and B, empty inner bitmaps allowed on both
\* sides, A &= B, A -= B, A |= B and A ^= B leave in A the intersection,
\* the difference, the union and the symmetric difference of the elements
\* of the old A and of B; B is a const operand and keeps its outer map.
C13_SetAlgebra ==
    LET A == Elements(r64)
        B == Elements(other)
    IN  /\ Elements(and_assign(r64, other, FALSE)) = A \cap B
        /\ Elements(minus_assign(r64, other, FALSE)) = A \ B
        /\ Elements(or_assign(r64, other, FALSE)) = A \cup B
        /\ Elements(xor_assign(r64, other, FALSE)) = (A \ B) \cup (B \ A)
        /\ last.op = "operator&" => Elements(last.ret) = A \cap B
        /\ last.op = "operator-" => Elements(last.ret) = A \ B
        /\ last.op = "operator|" => Elements(last.ret) = A \cup B
        /\ last.op = "operator^" => Elements(last.ret) = (A \ B) \cup (B \ A)

\* an intersection was taken of two bitmaps that share an element, where A
\* holds an element under a key B lacks and an empty bitmap under a key of B
C13_Witness ==
    /\ last.op = "operator&"
    /\ Elements(last.ret) # {}
    /\ \E v \in Elements(r64) : highBytes(v) \notin DOMAIN other.roarings
    /\ EmptyKeys(r64) \cap DOMAIN other.roarings # {}

\* ----------------------------------------------------------------- C14
\* C14: with the bitmap itself as the operand, A |= A and A &= A leave A as
\* it was (elements and outer map), and A -= A and A ^= A leave A without
\* any element.
C14_SelfAliased ==
    [][/\ last'.op \in {"operator|=", "operator&="} => r64' = r64
       /\ last'.op \in {"operator-=", "operator^="} => Elements(r64') = {}]_vars

\* A -= A was applied to a bitmap that held elements, and left none
C14_Witness ==
    /\ last.op = "operator-="
    /\ last.tag = "nonempty"
    /\ Elements(r64) = {}

\* ----------------------------------------------------------------- C15
\* C15: for every n >= 0 and every list of n input bitmaps, duplicates and
\* empty inner bitmaps allowed, fastunion returns a bitmap whose elements
\* are the union of the elements of the inputs, equal (operator==) to the
\* fold of operator|= over the inputs; the inputs are const and keep their
\* outer maps.
C15_FastUnionIsUnion ==
    last.op = "fastunion" =>
        LET ins == {IF pick THEN r64 ELSE other : pick \in last.tag}
            folded == or_assign(or_assign(NewRoaring64Map,
                                          IF TRUE \in last.tag THEN r64
                                          ELSE NewRoaring64Map, FALSE),
                                IF FALSE \in last.tag THEN other
                                ELSE NewRoaring64Map, FALSE)
        IN  /\ Elements(last.ret) = UNION {Elements(m) : m \in ins}
            /\ equals(last.ret, folded)

\* fastunion was called on both bitmaps, which share an outer key with
\* different elements, and one of them holds an empty inner bitmap
C15_Witness ==
    /\ last.op = "fastunion"
    /\ last.tag = {TRUE, FALSE}
    /\ \E k \in DOMAIN r64.roarings \cap DOMAIN other.roarings :
           /\ r64.roarings[k].bits # {}
           /\ other.roarings[k].bits # {}
           /\ r64.roarings[k].bits # other.roarings[k].bits
    /\ EmptyKeys(r64) \cup EmptyKeys(other) # {}

\* ----------------------------------------------------------------- C16
\* C16: for every bitmap and every lo <= hi, flipClosed(lo, hi) toggles the
\* values of [lo, hi], over one or several outer keys, and leaves the other
\* values as they are; a second flipClosed(lo, hi) gives a bitmap equal
\* (operator==) to the first one.
C16_FlipTogglesInterval ==
    last.op = "flipClosed" =>
        \A lo, hi \in Values :
            lo <= hi =>
                LET flipped == flipClosed(r64, lo, hi)
                    A == Elements(r64)
                IN  /\ Elements(flipped) = (A \ (lo .. hi)) \cup ((lo .. hi) \ A)
                    /\ equals(flipClosed(flipped, lo, hi), r64)

\* flipClosed was applied over the whole domain, hence over every outer
\* key, to a bitmap that held some values and lacked others
C16_Witness ==
    /\ last.op = "flipClosed"
    /\ last.tag = "whole"
    /\ Elements(r64) # {}
    /\ Elements(r64) # Values
    /\ DOMAIN r64.roarings = Keys

\* ----------------------------------------------------------------- C17
\* C17: for every bitmap and both values of portable, write returns exactly
\* getSizeInBytes(portable) bytes, 8 for the map size plus, per outer entry,
\* 4 for the key plus the serialized size of the inner bitmap, and read of
\* those bytes gives a bitmap equal (operator==) to the one written.
C17_WriteReadRoundTrip ==
    last.op = "write" =>
        LET rs == r64.roarings
            entry == [k \in DOMAIN rs |->
                         4 + Len(Roaring_write(rs[k], last.tag))]
        IN  /\ last.ret.written = getSizeInBytes(r64, last.tag)
            /\ last.ret.written = 8 + SumOver(entry, DOMAIN rs)
            /\ equals(last.ret.result, r64)

\* a bitmap with values under two outer keys and an empty inner bitmap
\* between them was written in the non-portable form and read back
C17_Witness ==
    /\ last.op = "write"
    /\ last.tag = FALSE
    /\ EmptyKeys(r64) # {}
    /\ \E j, k \in DOMAIN r64.roarings \ EmptyKeys(r64) :
           \E e \in EmptyKeys(r64) : j < e /\ e < k

\* ----------------------------------------------------------------- C18
\* C18: for every stream of length L written by write in the portable form
\* and every maxbytes < L, readSafe(buf, maxbytes) ends in an error and
\* returns no bitmap, its byte budget is never decremented below zero and
\* it looks at no byte at offset maxbytes or beyond.
C18_ReadSafeRefusesTruncated ==
    (last.op = "readSafe" /\ last.tag < Len(write(r64, TRUE))) =>
        /\ ~last.ret.ok
        /\ ~last.ret.underflow
        /\ last.ret.reads <= last.tag

\* readSafe was given a stream of two entries cut inside its second entry,
\* after the key
C18_Witness ==
    /\ last.op = "readSafe"
    /\ Cardinality(DOMAIN r64.roarings) = 2
    /\ LET first == r64.roarings[SetMin(DOMAIN r64.roarings)]
           second == sizeofUint64 + sizeofUint32 + Roaring_getSizeInBytes(first, TRUE)
       IN  /\ last.tag >= second + sizeofUint32
           /\ last.tag < Len(write(r64, TRUE))
    /\ ~last.ret.ok

\* ----------------------------------------------------------------- C19
\* C19: for every bitmap, with empty inner bitmaps at the front, in the
\* middle or at the end of the outer map, the loop from begin() with
\* operator++ until the iterator equals end() reads every element once, in
\* strictly ascending order, never stands on an empty inner bitmap while
\* it differs from end(), and terminates.
C19_Traversal ==
    /\ [](iterator # NoIterator =>
            LET rs == r64.roarings
                seen == last.ret
            IN  /\ \A j \in 1 .. Len(seen) - 1 : seen[j] < seen[j + 1]
                /\ {seen[j] : j \in 1 .. Len(seen)} \subseteq Elements(r64)
                /\ notEqualsEnd(rs, iterator) =>
                       /\ iterator.i.has_value
                       /\ iterator.i.parent = KeyAt(rs, iterator.map_iter)
                       /\ iterator.i.current_value
                              \in rs[KeyAt(rs, iterator.map_iter)].bits
                       /\ \A j \in 1 .. Len(seen) : seen[j] < deref(rs, iterator)
                /\ ~notEqualsEnd(rs, iterator) =>
                       /\ {seen[j] : j \in 1 .. Len(seen)} = Elements(r64)
                       /\ iterator.map_iter = end(r64).map_iter)
    /\ (iterator # NoIterator ~> ~notEqualsEnd(r64.roarings, iterator))

\* the loop has ended on a bitmap whose outer map holds an empty inner
\* bitmap between two non-empty ones
C19_Witness ==
    /\ iterator # NoIterator
    /\ ~notEqualsEnd(r64.roarings, iterator)
    /\ Len(last.ret) >= 2
    /\ LET full == DOMAIN r64.roarings \ EmptyKeys(r64)
       IN  \E e \in EmptyKeys(r64) : \E j, k \in full : j < e /\ e < k

\* ----------------------------------------------------------------- C20
\* C20: runOptimize() returns true exactly when at least one inner bitmap's
\* runOptimize() reports a run container; false for a bitmap with no inner
\* bitmap.
C20_RunOptimizeAnyRun ==
    last.op = "runOptimize" =>
        last.ret = (\E k \in DOMAIN r64.roarings :
                        Roaring_runOptimize(r64.roarings[k]))


\* ----------------------------------------------------------------- C21
\* C21: after shrinkToFit() returns, the outer map holds no entry with an
\* empty inner bitmap, every non-empty entry is still there under its key
\* with the same inner bitmap, and the bitmap holds the elements it held.
C21_ShrinkToFitDropsEmpties ==
    last.op = "shrinkToFit" =>
        /\ EmptyKeys(r64) = {}
        /\ \A k \in DOMAIN other.roarings \ EmptyKeys(other) :
               k \in DOMAIN r64.roarings /\ r64.roarings[k] = other.roarings[k]
        /\ Elements(r64) = Elements(other)

\* shrinkToFit ran on a bitmap with two empty entries in a row followed by a
\* non-empty one
C21_Witness ==
    /\ last.op = "shrinkToFit"
    /\ EmptyKeys(other) = {0, 1}
    /\ DOMAIN r64.roarings = {2}
    /\ last.ret = 2 * 88

\* ----------------------------------------------------------------- C23
\* C23: for every bitmap and every min <= max, removeRangeClosed(min, max)
\* leaves the elements the bitmap held minus those of [min, max], whether
\* or not the outer keys of min and max have entries, and the outer map
\* has no key it did not have before the call.
C23_RemoveRangeClosed ==
    last.op = "removeRangeClosed64" =>
        LET min == last.tag[1]
            max == last.tag[2]
        IN  min <= max =>
                /\ Elements(r64) = Elements(other) \ (min .. max)
                /\ DOMAIN r64.roarings \subseteq DOMAIN other.roarings

\* a range that starts inside an absent outer key, covers a whole entry and
\* ends inside an entry, of which it removes one value and leaves another
C23_Witness ==
    /\ last.op = "removeRangeClosed64"
    /\ DOMAIN other.roarings = {1, 2}
    /\ highBytes(last.tag[1]) = 0
    /\ highBytes(last.tag[2]) = 2
    /\ other.roarings[1].bits # {}
    /\ DOMAIN r64.roarings = {2}
    /\ r64.roarings[2].bits # {}
    /\ r64.roarings[2].bits # other.roarings[2].bits

\* ----------------------------------------------------------------- C22
\* whether the cardinality field of a container is the sentinel or the
\* number of bits set in its array
CardinalityKnownOrExact(bitset) ==
    bitset.cardinality # UnknownCardinality =>
        bitset.cardinality = BitCount(bitset)

\* bitset_container_set or bitset_container_unset is called on a container
\* whose cardinality field is the sentinel
SetOrUnsetOnUnknown ==
    \E c \in DOMAIN bitsets, i \in BitIndexes :
        /\ bitsets[c].cardinality = UnknownCardinality
        /\ BitsetSet(c, i) \/ BitsetUnset(c, i)

\* C22 as stated: after any sequence of create, set, unset and the four
\* operations in both variants, every container whose cardinality field is
\* not -1 has a cardinality field equal to the number of bits set.
C22_CardinalityIsPopcount ==
    \A c \in DOMAIN bitsets : CardinalityKnownOrExact(bitsets[c])

\* C22, amended: the same holds after any sequence of those calls in which
\* set and unset are not called on a container whose cardinality field is
\* -1: it holds of created containers, and every other call keeps it.
C22_CardinalityIsPopcountUnlessSetOnUnknown ==
    /\ \A c \in DOMAIN bitsets : CardinalityKnownOrExact(bitsets[c])
    /\ [][(\A c \in DOMAIN bitsets : CardinalityKnownOrExact(bitsets[c]))
              => \/ \A c \in DOMAIN bitsets : CardinalityKnownOrExact(bitsets'[c])
                 \/ SetOrUnsetOnUnknown]_vars

\* a cardinality-computing or has just counted two bits, next to a container
\* that a _nocard call left with two bits and the sentinel
C22_Witness ==
    /\ last.op = "or"
    /\ last.ret = 2
    /\ \E c, d \in DOMAIN bitsets :
           /\ bitsets[c].cardinality = 2
           /\ BitCount(bitsets[c]) = 2
           /\ bitsets[d].cardinality = UnknownCardinality
           /\ BitCount(bitsets[d]) = 2

\* ----------------------------------------------------------------- C24
\* whether a bit is one in the result of the operation on two bits
BitOp(opname, x, y) ==
    CASE opname = "or" -> x \/ y
      [] opname = "and" -> x /\ y
      [] opname = "xor" -> x # y
      [] opname = "andnot" -> x /\ ~y

\* C24: for each of or, and, xor, andnot and all inputs b1, b2, the output
\* aliasing an input or not, every word of the output is b1[k] op b2[k]
\* (andnot being b1 AND NOT b2); the cardinality-computing variant stores
\* and returns the number of bits of the output, and the _nocard variant
\* writes the same bits and stores and returns -1.
C24_WordParallelOps ==
    [][last'.op = "bitset_container_fn" =>
          LET t == last'.tag
              out == bitsets'[t.bitsetout]
          IN  /\ \A k \in WordIndexes, bit \in AllBits :
                     bit \in out.array[k] <=>
                         BitOp(t.opname, bit \in bitsets[t.bitset1].array[k],
                                         bit \in bitsets[t.bitset2].array[k])
              /\ out.cardinality = last'.ret
              /\ last'.ret = IF t.nocard THEN -1 ELSE BitCount(out)]_vars

\* andnot, counting, wrote its output over its second input: the output
\* holds one bit of two words of the first input
C24_Witness ==
    /\ last.op = "bitset_container_fn"
    /\ last.tag.opname = "andnot"
    /\ ~last.tag.nocard
    /\ last.tag.bitset1 = 1
    /\ last.tag.bitset2 = 2
    /\ last.tag.bitsetout = 2
    /\ last.ret = 1
    /\ BitCount(bitsets[1]) = 2
    /\ bitsets[2].array[1] # {}
    /\ bitsets[2].array # bitsets[1].array

\* ----------------------------------------------------------------- C25
\* C25: for every bitmap written with writeFrozen into a buffer whose
\* address is a multiple of 32, every inner frozen body starts at a multiple
\* of 32, one body per outer entry, the number of bytes the function went
\* through is getFrozenSizeInBytes(), and frozenView of that buffer gives a
\* bitmap equal (operator==) to the one written.
C25_FrozenRoundTrip ==
    (last.op = "writeFrozen" /\ last.tag % 32 = 0) =>
        /\ \A body \in last.ret.bodies : body % 32 = 0
        /\ Cardinality(last.ret.bodies) = MapSize(r64.roarings)
        /\ last.ret.written = last.ret.size
        /\ last.ret.view.ok
        /\ equals(last.ret.view.bitmap, r64)

\* a bitmap with one value under outer key 0, an empty inner bitmap at key 1
\* and one value under key 2 was frozen at address 32: padding came before
\* each of the three bodies
C25_Witness ==
    /\ last.op = "writeFrozen"
    /\ last.tag = 32
    /\ DOMAIN r64.roarings = {0, 1, 2}
    /\ Cardinality(r64.roarings[0].bits) = 1
    /\ r64.roarings[1].bits = {}
    /\ Cardinality(r64.roarings[2].bits) = 1
    /\ last.ret.bodies = {64, 96, 128}
    /\ last.ret.written = 104

\* ----------------------------------------------------------------- C26
\* C26: for every bitmap, empty inner bitmaps included, and every x, move(x)
\* returns true exactly when the bitmap has an element >= x, and the
\* iterator then stands on a value, the smallest element >= x.
C26_MoveFindsSmallestAtLeast ==
    last.op = "move" =>
        LET atLeast == {e \in Elements(r64) : e >= last.tag}
        IN  /\ last.ret <=> atLeast # {}
            /\ last.ret =>
                   /\ iterator.i.has_value
                   /\ deref(r64.roarings, iterator) = SetMin(atLeast)

\* ----------------------------------------------------------------- C27
\* whether an iterator stands at the end of the outer map
Exhausted(rs, iter) == iter.map_iter = MapEnd(rs)

\* C27: a == b and a != b dereference no exhausted iterator; a == b is true
\* exactly when both are exhausted or both stand on the same value, and
\* a != b is its negation, whichever of a and b is exhausted.
C27_CompareNeverDerefsEnd ==
    last.op = "operator==" =>
        LET rs == r64.roarings
            a == iterator
            b == last.tag
            same == \/ Exhausted(rs, a) /\ Exhausted(rs, b)
                    \/ /\ ~Exhausted(rs, a)
                       /\ ~Exhausted(rs, b)
                       /\ deref(rs, a) = deref(rs, b)
        IN  /\ ~last.ret.eq.derefEnd
            /\ ~last.ret.ne.derefEnd
            /\ last.ret.eq.ret = same
            /\ last.ret.ne.ret = ~same

\* ----------------------------------------------------------------- C30
\* C30: on a bitmap with an element, empty inner bitmaps allowed anywhere,
\* --it and it-- from the same position leave the same position, and from
\* the end they leave the iterator on the largest element, maximum().
C30_DecrementsAgree ==
    last.op = "operator--" =>
        LET rs == r64.roarings
        IN  /\ last.ret.pre = last.ret.post
            /\ Exhausted(rs, iterator) =>
                   /\ last.ret.pre.i.has_value
                   /\ deref(rs, last.ret.pre) = maximum(r64)
                   /\ last.ret.post.i.has_value
                   /\ deref(rs, last.ret.post) = maximum(r64)

\* ----------------------------------------------------------------- C29
\* what holds between the rounds of a fastunion: the queue holds the inputs
\* that are not at their end; each round took as target_key the smallest
\* current key of the inputs not at their end, a key above that of the
\* round before, and moved exactly the inputs standing on that key, by one
\* entry; and once the queue is empty every input is at its end and the
\* keys of the rounds and of the result are the keys of the inputs, once each
FastUnionRoundsInv ==
    last.op = "fastunion" =>
        LET n == Len(last.tag)
            inputs == FastUnionInputs(n, last.tag)
            st == last.ret
            rounds == st.rounds
            AtEnd(iters, i) == iters[i] = MapEnd(inputs[i].roarings)
            Key(iters, i) == KeyAt(inputs[i].roarings, iters[i])
            allKeys == UNION {DOMAIN inputs[i].roarings : i \in 1 .. n}
        IN  /\ {st.pq[j] : j \in DOMAIN st.pq} = {i \in 1 .. n : ~AtEnd(st.iters, i)}
            /\ Len(st.pq) = Cardinality({i \in 1 .. n : ~AtEnd(st.iters, i)})
            /\ \A r \in DOMAIN rounds :
                   LET before == rounds[r].iters
                       after == IF r < Len(rounds) THEN rounds[r + 1].iters
                                ELSE st.iters
                       live == {i \in 1 .. n : ~AtEnd(before, i)}
                       target_key == rounds[r].target_key
                   IN  /\ live # {}
                       /\ target_key = SetMin({Key(before, i) : i \in live})
                       /\ \A i \in 1 .. n :
                              after[i] = IF i \in live /\ Key(before, i) = target_key
                                         THEN before[i] + 1 ELSE before[i]
                       /\ r > 1 => rounds[r - 1].target_key < target_key
            /\ st.pq = <<>> =>
                   /\ \A i \in 1 .. n : AtEnd(st.iters, i)
                   /\ {rounds[r].target_key : r \in DOMAIN rounds} = allKeys
                   /\ Len(rounds) = Cardinality(allKeys)
                   /\ DOMAIN st.result = allKeys

\* the entries the input iterators of a running fastunion have yet to pass
EntriesLeft(run) ==
    LET n == Len(run.tag)
        inputs == FastUnionInputs(n, run.tag)
    IN  Cardinality({<<i, p>> \in (1 .. n) \X (1 .. (MaxHigh + 1)) :
                        /\ run.ret.iters[i] <= p
                        /\ p < MapEnd(inputs[i].roarings)})

\* C29: in fastunion the target key taken from the priority queue is at
\* every step the smallest current outer key of the inputs that are not at
\* their end; so the keys come out in strictly ascending order, each key of
\* an input once, with all the inputs holding it gathered in that round; and
\* the loop ends, with every input iterator at its end: every round lowers
\* the number of entries the iterators have yet to pass, and the queue is
\* empty exactly when that number is zero.
C29_FastUnionRounds ==
    /\ []FastUnionRoundsInv
    /\ [](last.op = "fastunion" => (last.ret.pq = <<>> <=> EntriesLeft(last) = 0))
    /\ [][(last.op = "fastunion" /\ last'.op = "fastunion")
              => EntriesLeft(last') < EntriesLeft(last)]_vars

\* a fastunion of three inputs, r64 and other both among them, has ended
\* after more than one round; the two bitmaps share an outer key and one of
\* them has a key of its own
C29_Witness ==
    /\ last.op = "fastunion"
    /\ last.ret.pq = <<>>
    /\ Len(last.tag) = 3
    /\ {last.tag[i] : i \in 1 .. 3} = BOOLEAN
    /\ Len(last.ret.rounds) >= 2
    /\ DOMAIN r64.roarings \cap DOMAIN other.roarings # {}
    /\ DOMAIN r64.roarings # DOMAIN other.roarings

\* ----------------------------------------------------------------- C28
\* whether every inner bitmap of m has the copy-on-write flag of m
CowFlagsAgree(m) ==
    \A key \in DOMAIN m.roarings : m.roarings[key].cow = m.copyOnWrite

\* C28: after any sequence of setCopyOnWrite, add, remove, addRangeClosed
\* and removeRangeClosed in both overloads, flipClosed, the in-place set
\* operators, swap, fastunion and read, every inner bitmap stored in an
\* outer map has its copy-on-write flag equal to the copyOnWrite flag of
\* the Roaring64Map that owns it.
C28_CowFlagsAgree == CowFlagsAgree(r64) /\ CowFlagsAgree(other)

=============================================================================
